---- MODULE Spec2Model ----
(***************************************************************************)
(* Model of the scraping core of jobs-ge-scraper.                          *)
(*                                                                         *)
(*  - the fetch layer: Collector._fetch_with_retry behind                  *)
(*    Collector._rate_limiter (scraper/collector.py) and                   *)
(*    BaseScraper._fetch_with_retry behind BaseScraper._apply_rate_limit   *)
(*    and StaticScraperStrategy.fetch_page (src/scrapers/base);            *)
(*  - the sequential paginator BaseScraper.get_job_listings;               *)
(*  - the stream merger Pipeline.process_job_stream / Pipeline.run         *)
(*    (scraper/pipeline.py).                                               *)
(*                                                                         *)
(* Durations are in milliseconds.                                          *)
(***************************************************************************)
EXTENDS Integers, Sequences, FiniteSets, TLC

\* ---------------------------------------------------------------- bounds
NumTasks == 2
MaxConcurrent == 1
MaxRetries == 3
RandSteps == 2
MaxPages == 3
MaxRows == 2
MaxJobCount == 4
NumIds == 2
ShortPages == 2

\* ------------------------------------------------------ program constants
REQUEST_DELAY == 1000
PAGE_SIZE == 300
MAX_PAGES == 24
max_pages == 50

VARIABLES
  variant,            \* "collector" | "base": which fetcher the tasks run
  max_retries,        \* Collector.max_retries / BaseScraper.max_retries
  max_concurrent,     \* Collector.max_concurrent / ScraperStrategy.max_concurrent
  rate_limit_delay,   \* BaseScraper.rate_limit_delay
  semaphore,          \* free slots of self.semaphore
  request_lock,       \* holder of BaseScraper._request_lock, 0 when free
  last_request_set,   \* BaseScraper._last_request_time has been assigned
  pc,                 \* position of each fetch task
  attempt,            \* loop variable of `for attempt in range(max_retries)`
  sent,               \* requests issued by the task so far
  nfail,              \* attempts of the task that failed so far
  slotDelay,          \* delay slept in this attempt while holding the slot
  preDelay,           \* delay slept in this attempt before taking the slot
  backoff,            \* length of the backoff sleep the task is in
  job_count,          \* ScrapingConfig.job_count
  site,               \* rows the site serves on each list page
  page,               \* get_job_listings: page
  total_jobs_found,   \* get_job_listings: total_jobs_found
  lpc,                \* position of get_job_listings
  rowsLeft,           \* rows of job_listings the for loop has not reached yet
  pagesRequested,     \* list pages whose fetch was started
  failedPages,        \* list pages whose fetch exhausted its retries
  parseErrPages,      \* list pages whose parse raised
  platform,           \* which get_job_listings runs: "generic" | "cv_ge" | "ss_ge"
  sitePass,           \* rows of each list page that pass CvGeScraper._filter_jobs
  ssSite,             \* job ids parse_job_listings finds on each jobs.ss.ge page
  ss_page,            \* scrape_pages_worker: page, per worker
  wpc,                \* position of each scrape_pages_worker
  wrows,              \* rows of current_job_listings a worker has not reached yet
  stop_scraping,      \* the threading.Event stop_scraping is set
  jobs_seen,          \* SsGeScraper.get_job_listings: jobs_seen
  jobs_queue,         \* SsGeScraper.get_job_listings: jobs_queue
  cpc,                \* position of the consumer loop of SsGeScraper.get_job_listings
  ssYielded,          \* job ids the SsGeScraper stream has yielded, in order
  detailed_jobs,      \* JobPipeline.run_full_pipeline: detailed_jobs
  details_saved,      \* details of detailed_jobs handed to save_job_details
  spc,                \* position of DatabaseScrapingPipeline.scrape_platform
  jobs_processed,     \* scrape_platform: jobs_processed, result['total_jobs_found']
  successful_saves,   \* scrape_platform: result['successful_saves']
  failed_saves,       \* scrape_platform: result['failed_saves'], len(result['errors'])
  tbl_job_listings,   \* rows of the table job_listings
  tbl_job_details,    \* rows of the table job_details
  tbl_job_requirements, \* rows of the table job_requirements per job_id
  dbRequest,          \* the platform of each run and the requirements of each job
  dbRun,              \* the run saving to the database: 1, 2; 0 none, 3 over
  dbTodo,             \* the saves the run has still to make, in order
  dbResults,          \* <<run, table, id>> of the saves that returned True
  dbRowsFirst,        \* rows per job id in each table when the first run ended
  pipeline_names,     \* run_multiple_pipelines: pipeline_names
  tasks,              \* run_multiple_pipelines: tasks, each with its position
  results,            \* run_multiple_pipelines: results
  mpc,                \* position of run_multiple_pipelines
  scrapers,           \* ScraperFactory._scrapers
  created,            \* the last create_scraper call: the type asked and its outcome
  fpc,                \* the scraper_factory module: "class", "imported"; "idle"
  siteIds,            \* the job ids of the rows of each list page of the site
  yieldedIds,         \* the job ids get_job_listings has yielded, in order
  om_module,          \* the OutputManager in use: utils or src.utils
  temp_dir,           \* OutputManager.temp_dir: file name -> content
  final_jobs_file,    \* the records of jobs.json, <<>> while not written
  passed,             \* the save_job_temp calls: the id, and whether it returned
  opc,                \* the OutputManager: "open", "finalized", "raised"; "idle"
  total_pages,        \* Collector.total_pages
  pageIds,            \* job ids parse_job_list finds on each list page
  batch_size,         \* Pipeline.batch_size
  descriptions,       \* paths written by OutputManager.save_description
  description_path,   \* job_detail_dict["description_path"] of each coroutine
  max_concurrent_details, \* Pipeline.max_concurrent_details
  detail_semaphore,   \* free slots of Pipeline.semaphore
  ppc,                \* position of Pipeline.run / process_job_stream
  page_num,           \* job_summaries_generator: page_num
  consumed,           \* tasks whose result the stream has taken over
  all_job_ids,        \* process_job_stream: all_job_ids
  batchStart,         \* process_job_stream: i, 1-based
  dpc,                \* position of each process_job_detail coroutine
  job_summaries,      \* Pipeline.run: keys of job_summaries
  job_details,        \* Pipeline.run: job_details, id -> "ok" | "error"
  processed_count,    \* Pipeline.run: processed_count
  error_count,        \* Pipeline.run: error_count
  saved,              \* successful save_job_temp calls per id
  temp_files,         \* OutputManager.temp_dir: id -> keys of the record in its file
  summaryRecv,        \* ids whose summary Pipeline.run has received
  detailRecv,         \* ids whose detail Pipeline.run has received
  detailStarted,      \* ids for which process_job_detail has been started
  remaining_jobs,     \* Pipeline.run: remaining_jobs, once computed
  batchItems          \* summaries of the current page not yet yielded to run

cfgVars == <<variant, max_retries, max_concurrent, rate_limit_delay>>

fetchVars == <<cfgVars, semaphore, request_lock, last_request_set, pc, attempt,
               sent, nfail, slotDelay, preDelay, backoff>>

listVars == <<job_count, site, page, total_jobs_found, lpc, rowsLeft,
              pagesRequested, failedPages, parseErrPages, platform, sitePass>>

ssVars == <<ssSite, ss_page, wpc, wrows, stop_scraping, jobs_seen, jobs_queue,
            cpc, ssYielded>>

pipeVars == <<total_pages, pageIds, batch_size,
              descriptions, description_path, max_concurrent_details,
              detail_semaphore, ppc, page_num, consumed, all_job_ids,
              batchStart, dpc, job_summaries, job_details, processed_count,
              error_count, saved, temp_files, summaryRecv, detailRecv, detailStarted,
              remaining_jobs, batchItems>>

spVars == <<spc, jobs_processed, successful_saves, failed_saves>>

dbVars == <<tbl_job_listings, tbl_job_details, tbl_job_requirements,
            dbRequest, dbRun, dbTodo, dbResults, dbRowsFirst>>

mgrVars == <<pipeline_names, tasks, results, mpc>>

facVars == <<scrapers, created, fpc>>

rowVars == <<siteIds, yieldedIds>>

omVars == <<om_module, temp_dir, final_jobs_file, passed, opc>>

jpVars == <<detailed_jobs, details_saved, spVars, dbVars, mgrVars, facVars,
            rowVars, omVars>>

driverVars == <<listVars, pipeVars, ssVars, jpVars>>

vars == <<fetchVars, driverVars>>

Tasks == 1..NumTasks

\* page_offset of the two scrape_pages_worker threads: 0 odd pages, 1 even
Workers == {0, 1}

RECURSIVE Pow2(_)
Pow2(n) == IF n = 0 THEN 1 ELSE 2 * Pow2(n - 1)

Ids == 1..NumIds

Range(f) == {f[i] : i \in DOMAIN f}

Min(a, b) == IF a < b THEN a ELSE b

\* the keys of the job_summaries dict of one page, rows in ascending id order
RECURSIVE SeqOf(_)
SeqOf(ids) ==
  IF ids = {} THEN <<>>
  ELSE LET m == CHOOSE x \in ids : \A y \in ids : x <= y
       IN <<m>> \o SeqOf(ids \ {m})

PageKeySeqs == {SeqOf(ids) : ids \in SUBSET Ids}

\* ------------------------------------------------------------ fetch layer

\* `for attempt in range(self.max_retries)`: is there an iteration for a?
HasNextAttemptOffByOne(a) == a <= max_retries
HasNextAttempt(a) == a < max_retries

\* position after the loop variable has become a
LoopPc(a) == IF HasNextAttempt(a) THEN "attempt" ELSE "raised"

\* asyncio.Semaphore: acquire proceeds only while the value is positive
CanAcquireUnguarded == TRUE
CanAcquire == semaphore > 0

\* leaving `async with self.semaphore` on the exception path
SemAfterFailureLeak == semaphore
SemAfterFailure == semaphore + 1

\* leaving `async with self.semaphore` on the return path
SemAfterSuccess == semaphore + 1

\* REQUEST_DELAY * (0.8 + 0.4 * random.random()), random() = r / RandSteps
JitterDelayNoFloor(r) == (REQUEST_DELAY * 4 * r) \div (10 * RandSteps)
JitterDelay(r) == (REQUEST_DELAY * (8 * RandSteps + 4 * r)) \div (10 * RandSteps)

\* asyncio.sleep(2 ** attempt), in ms
CollectorBackoff(a) == Pow2(a) * 1000

\* wait_time = (2 ** attempt) * self.rate_limit_delay
BaseBackoffLinear(a) == 2 * a * rate_limit_delay
BaseBackoff(a) == Pow2(a) * rate_limit_delay

\* time.time() - self._last_request_time, as the clock can make it
Elapsed == {0, rate_limit_delay \div 2, rate_limit_delay, 2 * rate_limit_delay}

\* Collector._rate_limiter: take a slot, draw the jitter, start sleeping
RateLimiterEnter(t) ==
  /\ variant = "collector"
  /\ pc[t] = "attempt"
  /\ CanAcquire
  /\ \E r \in 0..(RandSteps - 1) :
       slotDelay' = [slotDelay EXCEPT ![t] = JitterDelay(r)]
  /\ semaphore' = semaphore - 1
  /\ pc' = [pc EXCEPT ![t] = "jitter"]
  /\ UNCHANGED <<cfgVars, driverVars,
                 request_lock, last_request_set, attempt, sent, nfail,
                 preDelay, backoff>>

\* Collector._rate_limiter: the sleep ends, the body issues session.get
RateLimiterSleepDone(t) ==
  /\ variant = "collector"
  /\ pc[t] = "jitter"
  /\ pc' = [pc EXCEPT ![t] = "request"]
  /\ sent' = [sent EXCEPT ![t] = @ + 1]
  /\ UNCHANGED <<cfgVars, driverVars,
                 semaphore, request_lock, last_request_set, attempt, nfail,
                 slotDelay, preDelay, backoff>>

\* Collector._fetch_with_retry: status 200, return the text
CollectorStatus200(t) ==
  /\ variant = "collector"
  /\ pc[t] = "request"
  /\ semaphore' = SemAfterSuccess
  /\ pc' = [pc EXCEPT ![t] = "returned"]
  /\ slotDelay' = [slotDelay EXCEPT ![t] = 0]
  /\ UNCHANGED <<cfgVars, driverVars,
                 request_lock, last_request_set, attempt, sent, nfail,
                 preDelay, backoff>>

\* Collector._fetch_with_retry: other status, timeout or transport error;
\* the except clauses print, then asyncio.sleep(2 ** attempt) starts
CollectorAttemptFailed(t) ==
  /\ variant = "collector"
  /\ pc[t] = "request"
  /\ semaphore' = SemAfterFailure
  /\ nfail' = [nfail EXCEPT ![t] = @ + 1]
  /\ backoff' = [backoff EXCEPT ![t] = CollectorBackoff(attempt[t])]
  /\ pc' = [pc EXCEPT ![t] = "backoff"]
  /\ slotDelay' = [slotDelay EXCEPT ![t] = 0]
  /\ UNCHANGED <<cfgVars, driverVars,
                 request_lock, last_request_set, attempt, sent, preDelay>>

\* Collector._fetch_with_retry: the backoff sleep ends; next iteration, or
\* `raise Exception("Failed to fetch ...")` after the loop
CollectorBackoffDone(t) ==
  /\ variant = "collector"
  /\ pc[t] = "backoff"
  /\ attempt' = [attempt EXCEPT ![t] = @ + 1]
  /\ pc' = [pc EXCEPT ![t] = LoopPc(attempt[t] + 1)]
  /\ backoff' = [backoff EXCEPT ![t] = 0]
  /\ UNCHANGED <<cfgVars, driverVars,
                 semaphore, request_lock, last_request_set, sent, nfail,
                 slotDelay, preDelay>>

\* BaseScraper._apply_rate_limit: take _request_lock, read the clock; either
\* start sleeping for the rest of rate_limit_delay or stamp the time and leave
ApplyRateLimitEnter(t) ==
  /\ variant = "base"
  /\ pc[t] = "attempt"
  /\ request_lock = 0
  /\ \E since \in Elapsed :
       IF last_request_set /\ since < rate_limit_delay
       THEN /\ preDelay' = [preDelay EXCEPT ![t] = rate_limit_delay - since]
            /\ request_lock' = t
            /\ pc' = [pc EXCEPT ![t] = "rl_sleep"]
            /\ UNCHANGED last_request_set
       ELSE /\ preDelay' = [preDelay EXCEPT ![t] = 0]
            /\ request_lock' = 0
            /\ last_request_set' = TRUE
            /\ pc' = [pc EXCEPT ![t] = "waitsem"]
  /\ UNCHANGED <<cfgVars, driverVars,
                 semaphore, attempt, sent, nfail, slotDelay, backoff>>

\* BaseScraper._apply_rate_limit: the sleep ends, stamp the time, free the lock
ApplyRateLimitSleepDone(t) ==
  /\ variant = "base"
  /\ pc[t] = "rl_sleep"
  /\ request_lock' = 0
  /\ last_request_set' = TRUE
  /\ pc' = [pc EXCEPT ![t] = "waitsem"]
  /\ UNCHANGED <<cfgVars, driverVars,
                 semaphore, attempt, sent, nfail, slotDelay, preDelay, backoff>>

\* StaticScraperStrategy.fetch_page: take a slot, issue session.get
StrategyAcquire(t) ==
  /\ variant = "base"
  /\ pc[t] = "waitsem"
  /\ CanAcquire
  /\ semaphore' = semaphore - 1
  /\ pc' = [pc EXCEPT ![t] = "request"]
  /\ sent' = [sent EXCEPT ![t] = @ + 1]
  /\ UNCHANGED <<cfgVars, driverVars,
                 request_lock, last_request_set, attempt, nfail, slotDelay,
                 preDelay, backoff>>

\* StaticScraperStrategy.fetch_page returns the text; _fetch_with_retry returns
StrategyStatus200(t) ==
  /\ variant = "base"
  /\ pc[t] = "request"
  /\ semaphore' = SemAfterSuccess
  /\ pc' = [pc EXCEPT ![t] = "returned"]
  /\ preDelay' = [preDelay EXCEPT ![t] = 0]
  /\ UNCHANGED <<cfgVars, driverVars,
                 request_lock, last_request_set, attempt, sent, nfail,
                 slotDelay, backoff>>

\* StaticScraperStrategy.fetch_page raises; BaseScraper._fetch_with_retry logs
\* and, if another attempt follows, starts the backoff sleep; after the last
\* attempt the loop ends and last_exception is raised
StrategyAttemptFailed(t) ==
  /\ variant = "base"
  /\ pc[t] = "request"
  /\ semaphore' = SemAfterFailure
  /\ nfail' = [nfail EXCEPT ![t] = @ + 1]
  /\ preDelay' = [preDelay EXCEPT ![t] = 0]
  /\ IF attempt[t] < max_retries - 1
     THEN /\ backoff' = [backoff EXCEPT ![t] = BaseBackoff(attempt[t])]
          /\ pc' = [pc EXCEPT ![t] = "backoff"]
          /\ UNCHANGED attempt
     ELSE /\ attempt' = [attempt EXCEPT ![t] = @ + 1]
          /\ pc' = [pc EXCEPT ![t] = LoopPc(attempt[t] + 1)]
          /\ UNCHANGED backoff
  /\ UNCHANGED <<cfgVars, driverVars,
                 request_lock, last_request_set, sent, slotDelay>>

\* BaseScraper._fetch_with_retry: the backoff sleep ends, next iteration
BaseBackoffDone(t) ==
  /\ variant = "base"
  /\ pc[t] = "backoff"
  /\ attempt' = [attempt EXCEPT ![t] = @ + 1]
  /\ pc' = [pc EXCEPT ![t] = LoopPc(attempt[t] + 1)]
  /\ backoff' = [backoff EXCEPT ![t] = 0]
  /\ UNCHANGED <<cfgVars, driverVars,
                 semaphore, request_lock, last_request_set, sent, nfail,
                 slotDelay, preDelay>>

CollectorFetchStep(t) ==
  \/ RateLimiterEnter(t)
  \/ RateLimiterSleepDone(t)
  \/ CollectorStatus200(t)
  \/ CollectorAttemptFailed(t)
  \/ CollectorBackoffDone(t)

BaseFetchStep(t) ==
  \/ ApplyRateLimitEnter(t)
  \/ ApplyRateLimitSleepDone(t)
  \/ StrategyAcquire(t)
  \/ StrategyStatus200(t)
  \/ StrategyAttemptFailed(t)
  \/ BaseBackoffDone(t)

\* the fetcher as constructed, every task at the top of _fetch_with_retry
FetchInit ==
  /\ variant \in {"collector", "base"}
  /\ max_retries \in 1..MaxRetries
  /\ max_concurrent \in 1..MaxConcurrent
  /\ rate_limit_delay \in IF variant = "base" THEN {1000, 2000} ELSE {1000}
  /\ semaphore = max_concurrent
  /\ request_lock = 0
  /\ last_request_set = FALSE
  /\ pc = [t \in Tasks |-> LoopPc(0)]
  /\ attempt = [t \in Tasks |-> 0]
  /\ sent = [t \in Tasks |-> 0]
  /\ nfail = [t \in Tasks |-> 0]
  /\ slotDelay = [t \in Tasks |-> 0]
  /\ preDelay = [t \in Tasks |-> 0]
  /\ backoff = [t \in Tasks |-> 0]

\* no listing is running
ListIdleRest ==
  /\ site = <<>>
  /\ page = 0
  /\ total_jobs_found = 0
  /\ lpc = "idle"
  /\ rowsLeft = 0
  /\ pagesRequested = {}
  /\ failedPages = {}
  /\ parseErrPages = {}
  /\ platform = "none"
  /\ sitePass = <<>>

\* no SsGeScraper listing is running
SsIdle ==
  /\ ssSite = <<>>
  /\ ss_page = [w \in Workers |-> 0]
  /\ wpc = [w \in Workers |-> "idle"]
  /\ wrows = [w \in Workers |-> <<>>]
  /\ stop_scraping = FALSE
  /\ jobs_seen = {}
  /\ jobs_queue = <<>>
  /\ cpc = "idle"
  /\ ssYielded = <<>>
  /\ detailed_jobs = <<>>
  /\ details_saved = 0

\* no scrape_platform call is running
SpIdle ==
  /\ spc = "idle"
  /\ jobs_processed = 0
  /\ successful_saves = 0
  /\ failed_saves = 0

\* no OutputManager is constructed
OmIdle ==
  /\ om_module = "none"
  /\ temp_dir = <<>>
  /\ final_jobs_file = <<>>
  /\ passed = <<>>
  /\ opc = "idle"

\* no sequential listing stream has a site
RowIdle ==
  /\ siteIds = <<>>
  /\ yieldedIds = <<>>

\* the scraper factory is not looked at
FacIdle ==
  /\ scrapers = <<>>
  /\ created = <<>>
  /\ fpc = "idle"

\* run_multiple_pipelines is not running
MgrIdle ==
  /\ pipeline_names = <<>>
  /\ tasks = <<>>
  /\ results = <<>>
  /\ mpc = "idle"

\* no run is saving to the database, whose tables are empty
DbIdle ==
  /\ tbl_job_listings = {}
  /\ tbl_job_details = {}
  /\ tbl_job_requirements = <<>>
  /\ dbRequest = <<>>
  /\ dbRun = 0
  /\ dbTodo = <<>>
  /\ dbResults = {}
  /\ dbRowsFirst = <<>>

\* ParsedJobView.description_path before save_description returned
NoPath == <<>>

\* os.path.join(descriptions_dir, f"job-description-{job_id}.html")
DescriptionPath(id) == <<"descriptions", id>>

\* OutputManager.save_description: the file at description_path is written
SaveDescriptionSkipped(files, id) == files
SaveDescription(files, id) == files \cup {DescriptionPath(id)}

\* no pipeline is running
PipeIdle ==
  /\ total_pages = 0
  /\ pageIds = <<>>
  /\ batch_size = 0
  /\ max_concurrent_details = 0
  /\ detail_semaphore = 0
  /\ ppc = "idle"
  /\ page_num = 0
  /\ consumed = {}
  /\ all_job_ids = <<>>
  /\ batchStart = 0
  /\ dpc = [t \in Tasks |-> "idle"]
  /\ job_summaries = {}
  /\ job_details = <<>>
  /\ processed_count = 0
  /\ error_count = 0
  /\ saved = <<>>
  /\ temp_files = <<>>
  /\ summaryRecv = {}
  /\ detailRecv = {}
  /\ detailStarted = {}
  /\ remaining_jobs = {}
  /\ batchItems = <<>>
  /\ descriptions = {}
  /\ description_path = [t \in Tasks |-> NoPath]

ListIdle == job_count = 0 /\ ListIdleRest

Init == FetchInit /\ ListIdle /\ PipeIdle /\ SsIdle /\ SpIdle /\ DbIdle /\ MgrIdle /\ FacIdle
        /\ RowIdle
        /\ OmIdle

Next == \E t \in Tasks : CollectorFetchStep(t) \/ BaseFetchStep(t)

Spec == Init /\ [][Next]_vars

\* ------------------------------------------------- fetch layer: properties

\* the task is inside `async with self.semaphore`
HoldsSlot(t) ==
  IF variant = "collector" THEN pc[t] \in {"jitter", "request"}
  ELSE pc[t] = "request"

Holders == {t \in Tasks : HoldsSlot(t)}

\* the base delay of the fetcher the tasks run
BaseDelay == IF variant = "collector" THEN REQUEST_DELAY ELSE rate_limit_delay

Finished(t) == pc[t] \in {"returned", "raised"}

\* C1: with ceiling N = max_concurrent, in every reachable state the number of
\* requests that have acquired a slot and not yet released it is at most N.
C1_CeilingRespected == Cardinality(Holders) <= max_concurrent

\* the ceiling is reached while another fetch is waiting for a slot
C1_Witness ==
  /\ Cardinality(Holders) = max_concurrent
  /\ \E t \in Tasks : pc[t] \in {"attempt", "waitsem"} /\ sent[t] = 0

\* C2: a slot is taken exactly while a task is inside the guarded section, so
\* every attempt gives its slot back whichever way it ends, and once all
\* fetches have returned or exhausted their retries all N slots are free.
C2_SlotsReleased ==
  /\ semaphore = max_concurrent - Cardinality(Holders)
  /\ (\A t \in Tasks : Finished(t)) => semaphore = max_concurrent

\* all fetches are over, one by success after a failure, one by exhaustion
C2_Witness ==
  /\ \A t \in Tasks : Finished(t)
  /\ \E t \in Tasks : pc[t] = "returned" /\ nfail[t] > 0
  /\ \E t \in Tasks : pc[t] = "raised"
  /\ semaphore = max_concurrent

\* C3: a fetch that returns after k failed attempts has made exactly k + 1
\* attempts, with k < max_retries; a fetch that fails terminally has made
\* exactly max_retries attempts, all of them failed.
C3_AttemptCount ==
  \A t \in Tasks :
    /\ pc[t] = "returned" => sent[t] = nfail[t] + 1 /\ nfail[t] < max_retries
    /\ pc[t] = "raised" => sent[t] = max_retries /\ nfail[t] = max_retries
    /\ sent[t] <= max_retries

\* one fetch failed twice and then succeeded on its third attempt, another
\* failed on every attempt
C3_Witness ==
  /\ \E t \in Tasks : pc[t] = "returned" /\ nfail[t] = 2 /\ sent[t] = 3
  /\ \E t \in Tasks : pc[t] = "raised" /\ sent[t] = max_retries

\* C4: after failed attempt number a that is not the last one the fetcher
\* sleeps 2^a * base_delay and then starts attempt a + 1; it never makes more
\* than max_retries attempts.
C4_Backoff ==
  [][\A t \in Tasks :
       /\ (nfail'[t] = nfail[t] + 1 /\ attempt[t] + 1 < max_retries)
            => (pc'[t] = "backoff" /\ backoff'[t] = Pow2(attempt[t]) * BaseDelay)
       /\ (pc[t] = "backoff" /\ pc'[t] # "backoff" /\ attempt[t] + 1 < max_retries)
            => (pc'[t] = "attempt" /\ attempt'[t] = attempt[t] + 1)
       /\ sent'[t] <= max_retries]_vars

\* a BaseScraper fetch with a base delay of 2 s waits 4 s after attempt 1
C4_Witness ==
  \E t \in Tasks :
    /\ variant = "base" /\ rate_limit_delay = 2000
    /\ pc[t] = "backoff" /\ attempt[t] = 1 /\ backoff[t] = 4000

SiteRows(p) == IF p \in DOMAIN site THEN site[p] ELSE 0

\* a site none of whose rows is listed twice: row k of page p has an id of
\* its own
DistinctRows(counts) ==
  [p \in DOMAIN counts |-> [k \in 1..counts[p] |-> (p - 1) * (MaxRows + 1) + k]]

\* job_listing.id of the k-th row the for loop of page p goes through
RowIdAt(p, k) == siteIds[p][k]

\* after a fetch failure the loop is left
AfterFetchErrorContinue == "loop"
AfterFetchError == "done"

\* rows of list page p left after CvGeScraper._filter_jobs; the other
\* scrapers yield every parsed row
SitePassAll(p) == SiteRows(p)
SitePass(p) == IF p \in DOMAIN sitePass THEN sitePass[p] ELSE 0

\* `while total_jobs_found < config.job_count`, in CvGeScraper
\* `... and page <= self.MAX_PAGES`
LoopGuardUnbounded == total_jobs_found < job_count
LoopGuard ==
  /\ total_jobs_found < job_count
  /\ (platform = "cv_ge" => page <= MAX_PAGES)

\* while the loop condition holds: build the url and call _fetch_with_retry;
\* otherwise the generator ends
GetJobListingsLoop ==
  /\ lpc = "loop"
  /\ IF LoopGuard
     THEN /\ pc' = [pc EXCEPT ![1] = LoopPc(0)]
          /\ attempt' = [attempt EXCEPT ![1] = 0]
          /\ sent' = [sent EXCEPT ![1] = 0]
          /\ nfail' = [nfail EXCEPT ![1] = 0]
          /\ pagesRequested' = pagesRequested \cup {page}
          /\ lpc' = "fetching"
     ELSE /\ lpc' = "done"
          /\ UNCHANGED <<pc, attempt, sent, nfail, pagesRequested>>
  /\ UNCHANGED <<pipeVars, ssVars, jpVars, platform, sitePass>>
  /\ UNCHANGED <<cfgVars, semaphore, request_lock, last_request_set, slotDelay,
                 preDelay, backoff, job_count, site, page, total_jobs_found,
                 rowsLeft, failedPages, parseErrPages>>

\* the page was fetched and parsed: no rows ends the listing, otherwise the
\* for loop over job_listings starts
GetJobListingsParsed ==
  /\ lpc = "fetching"
  /\ pc[1] = "returned"
  /\ pc' = [pc EXCEPT ![1] = "idle"]
  /\ IF SiteRows(page) = 0
     THEN lpc' = "done" /\ rowsLeft' = 0
     ELSE lpc' = "yielding" /\ rowsLeft' = SitePass(page)
  /\ UNCHANGED <<pipeVars, ssVars, jpVars, platform, sitePass>>
  /\ UNCHANGED <<cfgVars, semaphore, request_lock, last_request_set, attempt,
                 sent, nfail, slotDelay, preDelay, backoff, job_count, site,
                 page, total_jobs_found, pagesRequested, failedPages,
                 parseErrPages>>

\* _parse_with_strategy raised: logged by the except clause, break
GetJobListingsParseError ==
  /\ lpc = "fetching"
  /\ pc[1] = "returned"
  /\ pc' = [pc EXCEPT ![1] = "idle"]
  /\ parseErrPages' = parseErrPages \cup {page}
  /\ lpc' = "done"
  /\ UNCHANGED <<pipeVars, ssVars, jpVars, platform, sitePass>>
  /\ UNCHANGED <<cfgVars, semaphore, request_lock, last_request_set, attempt,
                 sent, nfail, slotDelay, preDelay, backoff, job_count, site,
                 page, total_jobs_found, rowsLeft, pagesRequested, failedPages>>

\* _fetch_with_retry raised after its last attempt: logged, break
GetJobListingsFetchError ==
  /\ lpc = "fetching"
  /\ pc[1] = "raised"
  /\ pc' = [pc EXCEPT ![1] = "idle"]
  /\ failedPages' = failedPages \cup {page}
  /\ lpc' = AfterFetchError
  /\ UNCHANGED <<pipeVars, ssVars, jpVars, platform, sitePass>>
  /\ UNCHANGED <<cfgVars, semaphore, request_lock, last_request_set, attempt,
                 sent, nfail, slotDelay, preDelay, backoff, job_count, site,
                 page, total_jobs_found, rowsLeft, pagesRequested,
                 parseErrPages>>

\* `if total_jobs_found >= config.job_count: break` is not taken
BelowTargetOffByOne == total_jobs_found <= job_count
BelowTarget == total_jobs_found < job_count

\* for job_listing in job_listings: yield it while below job_count
GetJobListingsYield ==
  /\ lpc = "yielding"
  /\ rowsLeft > 0
  /\ BelowTarget
  /\ total_jobs_found' = total_jobs_found + 1
  /\ rowsLeft' = rowsLeft - 1
  /\ yieldedIds' =
       Append(yieldedIds, RowIdAt(page, SitePass(page) - rowsLeft + 1))
  /\ UNCHANGED <<pipeVars, ssVars, detailed_jobs, details_saved, spVars, dbVars,
                 mgrVars, facVars, omVars, siteIds, platform, sitePass>>
  /\ UNCHANGED <<fetchVars, job_count, site, page, lpc, pagesRequested,
                 failedPages, parseErrPages>>

\* the for loop ends (rows exhausted, or break at job_count): page += 1;
\* CvGeScraper then awaits _apply_rate_limit, which sleeps if need be and
\* stamps _last_request_time, set since the fetch of this page
GetJobListingsPageDone ==
  /\ lpc = "yielding"
  /\ (rowsLeft = 0 \/ ~BelowTarget)
  /\ page' = page + 1
  /\ rowsLeft' = 0
  /\ lpc' = "loop"
  /\ UNCHANGED <<pipeVars, ssVars, jpVars, platform, sitePass>>
  /\ UNCHANGED <<fetchVars, job_count, site, total_jobs_found, pagesRequested,
                 failedPages, parseErrPages>>

\* a BaseScraper with its default rate_limit_delay, about to list a site
ListingBase ==
  /\ variant = "base"
  /\ max_concurrent \in 1..MaxConcurrent
  /\ rate_limit_delay = 1000
  /\ semaphore = max_concurrent
  /\ request_lock = 0
  /\ last_request_set = FALSE
  /\ pc = [t \in Tasks |-> "idle"]
  /\ attempt = [t \in Tasks |-> 0]
  /\ sent = [t \in Tasks |-> 0]
  /\ nfail = [t \in Tasks |-> 0]
  /\ slotDelay = [t \in Tasks |-> 0]
  /\ preDelay = [t \in Tasks |-> 0]
  /\ backoff = [t \in Tasks |-> 0]
  /\ page = 1
  /\ total_jobs_found = 0
  /\ rowsLeft = 0
  /\ pagesRequested = {}
  /\ failedPages = {}
  /\ parseErrPages = {}
  /\ PipeIdle
  /\ DbIdle
  /\ MgrIdle
  /\ FacIdle
  /\ OmIdle
  /\ yieldedIds = <<>>

\* BaseScraper.get_job_listings is about to list a site
ListingInit ==
  /\ ListingBase
  /\ max_retries \in 1..MaxRetries
  /\ platform = "generic"
  /\ job_count \in 1..MaxJobCount
  /\ site \in [1..MaxPages -> 0..MaxRows]
  /\ sitePass = site
  /\ siteIds = DistinctRows(site)
  /\ lpc = "loop"
  /\ SsIdle

\* CvGeScraper.get_job_listings, the scraper constructed with the default
\* max_retries, is about to list a site; its filter passes some of the rows
CvGeInit ==
  /\ ListingBase
  /\ max_retries = 3
  /\ platform = "cv_ge"
  /\ job_count \in 1..MaxJobCount
  /\ site \in [1..ShortPages -> 0..MaxRows]
  /\ sitePass \in [1..ShortPages -> 0..MaxRows]
  /\ \A p \in 1..ShortPages : sitePass[p] <= site[p]
  /\ siteIds = DistinctRows(site)
  /\ lpc = "loop"
  /\ SsIdle

\* ------------------------------- SsGeScraper.get_job_listings (two workers)

\* the rows parse_job_listings finds on jobs.ss.ge page p, none past the end
SsPageRows(p) == IF p \in DOMAIN ssSite THEN ssSite[p] ELSE <<>>

\* `if job_id not in jobs_seen`
IsNewJob(id) == id \notin jobs_seen

\* odd_future.done() and even_future.done()
BothDone == \A w \in Workers : wpc[w] = "done"

\* scrape_pages_worker: `while not stop_scraping.is_set() and page <= max_pages`
WorkerLoop(w) ==
  /\ wpc[w] = "loop"
  /\ wpc' = [wpc EXCEPT ![w] =
               IF ~stop_scraping /\ ss_page[w] <= max_pages
               THEN "get" ELSE "done"]
  /\ UNCHANGED <<fetchVars, listVars, pipeVars, jpVars, ssSite, ss_page, wrows,
                 stop_scraping, jobs_seen, jobs_queue, cpc, ssYielded>>

\* scrape_pages_worker: driver.get(url), find the job cards, parse the page;
\* no job cards, or an exception, leaves the loop
WorkerGet(w) ==
  /\ wpc[w] = "get"
  /\ pagesRequested' = pagesRequested \cup {ss_page[w]}
  /\ \/ /\ wpc' = [wpc EXCEPT ![w] = "done"]
        /\ failedPages' = failedPages \cup {ss_page[w]}
        /\ UNCHANGED wrows
     \/ /\ UNCHANGED failedPages
        /\ IF SsPageRows(ss_page[w]) = <<>>
           THEN wpc' = [wpc EXCEPT ![w] = "done"] /\ UNCHANGED wrows
           ELSE /\ wpc' = [wpc EXCEPT ![w] = "adding"]
                /\ wrows' = [wrows EXCEPT ![w] = SsPageRows(ss_page[w])]
  /\ UNCHANGED <<fetchVars, pipeVars, jpVars, job_count, site, page, total_jobs_found,
                 lpc, rowsLeft, parseErrPages, platform, sitePass, ssSite,
                 ss_page, stop_scraping, jobs_seen, jobs_queue, cpc,
                 ssYielded>>

\* scrape_pages_worker: one round of `for job_listing in
\* current_job_listings`, stop not set: under the lock, a job id not seen
\* before is recorded and put on the queue
WorkerAdd(w) ==
  /\ wpc[w] = "adding"
  /\ wrows[w] # <<>>
  /\ ~stop_scraping
  /\ LET id == Head(wrows[w]) IN
       IF IsNewJob(id)
       THEN /\ jobs_seen' = jobs_seen \cup {id}
            /\ jobs_queue' = Append(jobs_queue, id)
       ELSE UNCHANGED <<jobs_seen, jobs_queue>>
  /\ wrows' = [wrows EXCEPT ![w] = Tail(@)]
  /\ UNCHANGED <<fetchVars, listVars, pipeVars, jpVars, ssSite, ss_page, wpc,
                 stop_scraping, cpc, ssYielded>>

\* scrape_pages_worker: the for loop ends (rows exhausted, or break because
\* stop is set): page += 2
WorkerPageDone(w) ==
  /\ wpc[w] = "adding"
  /\ (wrows[w] = <<>> \/ stop_scraping)
  /\ ss_page' = [ss_page EXCEPT ![w] = @ + 2]
  /\ wrows' = [wrows EXCEPT ![w] = <<>>]
  /\ wpc' = [wpc EXCEPT ![w] = "loop"]
  /\ UNCHANGED <<fetchVars, listVars, pipeVars, jpVars, ssSite, stop_scraping,
                 jobs_seen, jobs_queue, cpc, ssYielded>>

\* the consumer loop: jobs_queue.get returns a job, `yield job_dict`
ConsumerGet ==
  /\ cpc = "get"
  /\ jobs_queue # <<>>
  /\ ssYielded' = Append(ssYielded, Head(jobs_queue))
  /\ jobs_queue' = Tail(jobs_queue)
  /\ cpc' = "yielded"
  /\ UNCHANGED <<fetchVars, listVars, pipeVars, jpVars, ssSite, ss_page, wpc, wrows,
                 stop_scraping, jobs_seen>>

\* the consumer loop after the yield: total_jobs_found += 1; at the target
\* set stop_scraping and break, otherwise the next round of the while loop
ConsumerResume ==
  /\ cpc = "yielded"
  /\ total_jobs_found' = total_jobs_found + 1
  /\ IF total_jobs_found + 1 >= job_count
     THEN stop_scraping' = TRUE /\ cpc' = "shutdown"
     ELSE UNCHANGED stop_scraping /\ cpc' = "get"
  /\ UNCHANGED <<fetchVars, pipeVars, jpVars, job_count, site, page, lpc, rowsLeft,
                 pagesRequested, failedPages, parseErrPages, platform,
                 sitePass, ssSite, ss_page, wpc, wrows, jobs_seen, jobs_queue,
                 ssYielded>>

\* the consumer loop: jobs_queue.get(timeout=2.0) finds the queue empty and
\* raises
ConsumerTimeout ==
  /\ cpc = "get"
  /\ jobs_queue = <<>>
  /\ cpc' = "check"
  /\ UNCHANGED <<fetchVars, listVars, pipeVars, jpVars, ssSite, ss_page, wpc, wrows,
                 stop_scraping, jobs_seen, jobs_queue, ssYielded>>

\* the consumer loop, except clause: break if both workers are done,
\* otherwise continue
ConsumerCheck ==
  /\ cpc = "check"
  /\ cpc' = IF BothDone THEN "shutdown" ELSE "get"
  /\ UNCHANGED <<fetchVars, listVars, pipeVars, jpVars, ssSite, ss_page, wpc, wrows,
                 stop_scraping, jobs_seen, jobs_queue, ssYielded>>

\* after the loop: stop_scraping.set(), then wait for the workers
ConsumerShutdown ==
  /\ cpc = "shutdown"
  /\ stop_scraping' = TRUE
  /\ cpc' = "joining"
  /\ UNCHANGED <<fetchVars, listVars, pipeVars, jpVars, ssSite, ss_page, wpc, wrows,
                 jobs_seen, jobs_queue, ssYielded>>

\* both workers have finished, the executor is left and the stream ends
StreamEnd ==
  /\ cpc = "joining"
  /\ BothDone
  /\ cpc' = "done"
  /\ UNCHANGED <<fetchVars, listVars, pipeVars, jpVars, ssSite, ss_page, wpc, wrows,
                 stop_scraping, jobs_seen, jobs_queue, ssYielded>>

\* the jobs.ss.ge sites listed: a first page for each worker, every later page
\* without job cards
SsSitePages == 1..Cardinality(Workers)

\* SsGeScraper.get_job_listings has started its two workers
SsGeInit ==
  /\ ListingBase
  /\ max_retries = 3
  /\ platform = "ss_ge"
  /\ job_count \in 1..MaxJobCount
  /\ site = <<>>
  /\ sitePass = <<>>
  /\ siteIds = <<>>
  /\ lpc = "idle"
  /\ ssSite \in [SsSitePages -> PageKeySeqs]
  /\ ss_page = [w \in Workers |-> 1 + w]
  /\ wpc = [w \in Workers |-> "loop"]
  /\ wrows = [w \in Workers |-> <<>>]
  /\ stop_scraping = FALSE
  /\ jobs_seen = {}
  /\ jobs_queue = <<>>
  /\ cpc = "get"
  /\ ssYielded = <<>>
  /\ detailed_jobs = <<>>
  /\ details_saved = 0

ListingNext ==
  \/ GetJobListingsLoop
  \/ BaseFetchStep(1)
  \/ GetJobListingsParsed
  \/ GetJobListingsParseError
  \/ GetJobListingsFetchError
  \/ GetJobListingsYield
  \/ GetJobListingsPageDone
  \/ \E w \in Workers : WorkerLoop(w)
  \/ \E w \in Workers : WorkerGet(w)
  \/ \E w \in Workers : WorkerAdd(w)
  \/ \E w \in Workers : WorkerPageDone(w)
  \/ ConsumerGet
  \/ ConsumerResume
  \/ ConsumerTimeout
  \/ ConsumerCheck
  \/ ConsumerShutdown
  \/ StreamEnd

\* the three listing streams, one of them running
\* a listing stream of one of the scrapers starts, outside scrape_platform
StreamInit == (ListingInit \/ CvGeInit \/ SsGeInit) /\ SpIdle

SpecListing == StreamInit /\ [][ListingNext]_vars

\* ---------------------------------------------- listing streams: properties

\* C13: in every run, with failed fetches and under every interleaving of the
\* two SsGeScraper workers and the consumer loop, a listing stream has yielded
\* at most job_count summaries.
C13_AtMostTarget ==
  /\ total_jobs_found <= job_count
  /\ Len(ssYielded) <= job_count

\* the SsGeScraper stream has ended with job_count jobs yielded while a job a
\* worker had put on the queue was left there
C13_Witness ==
  /\ platform = "ss_ge"
  /\ cpc = "done"
  /\ Len(ssYielded) = job_count
  /\ jobs_queue # <<>>

\* the first list page on which the site serves no row
FirstEmpty ==
  CHOOSE p \in 1..(Len(site) + 1) :
    SiteRows(p) = 0 /\ \A q \in 1..(p - 1) : SiteRows(q) > 0

\* f[1] + ... + f[n]
RECURSIVE SumTo(_, _)
SumTo(f, n) == IF n = 0 THEN 0 ELSE f[n] + SumTo(f, n - 1)

\* the pages a sequential listing can reach: those before the first empty
\* page, for CvGeScraper among the first MAX_PAGES
LastPage ==
  IF platform = "cv_ge" THEN Min(FirstEmpty - 1, MAX_PAGES) ELSE FirstEmpty - 1

\* a sequential listing has ended and none of its fetches or parses failed
EndedClean ==
  /\ platform \in {"generic", "cv_ge"}
  /\ lpc = "done"
  /\ failedPages = {} /\ parseErrPages = {}

EmptyPageSeen ==
  \/ /\ lpc = "done"
     /\ page \in pagesRequested \ (failedPages \cup parseErrPages)
     /\ SiteRows(page) = 0
  \/ \E w \in Workers :
       /\ wpc[w] = "done"
       /\ ss_page[w] \in pagesRequested \ failedPages
       /\ SsPageRows(ss_page[w]) = <<>>

\* C16: once a list page has yielded zero rows, no part of the paginator
\* issues a further list-page request.
C16_StopAtEmptyPage ==
  [][EmptyPageSeen => pagesRequested' = pagesRequested]_vars

\* the stream has yielded job_count summaries
TargetReached ==
  IF platform = "ss_ge" THEN Len(ssYielded) >= job_count
  ELSE total_jobs_found >= job_count

\* C17: the paginator requests no list page after the number of summaries
\* produced has reached job_count.
C17_NoRequestAfterTarget ==
  [][TargetReached => pagesRequested' = pagesRequested]_vars

\* C6: a list page whose fetch exhausts its retries fails only that page: when
\* the listing has ended below job_count, the next page, on which the site
\* serves rows, has still been requested.
C6_FailureIsolated ==
  lpc = "done" =>
    \A p \in failedPages :
      (total_jobs_found < job_count /\ SiteRows(p + 1) > 0)
        => (p + 1) \in pagesRequested

\* ------------------------------ Pipeline.process_job_stream and Pipeline.run

\* self.total_pages = (job_count + PAGE_SIZE - 1) // PAGE_SIZE
TotalPagesFloor(n) == n \div PAGE_SIZE
TotalPages(n) == (n + PAGE_SIZE - 1) \div PAGE_SIZE

\* del table[id]
Without(table, id) == [x \in (DOMAIN table) \ {id} |-> table[x]]

\* table[id] = v
With(table, id, v) ==
  [x \in (DOMAIN table) \cup {id} |-> IF x = id THEN v ELSE table[x]]

\* the keys of a summary dict, asdict(ParsedJobRow)
SummaryKeys == {"id", "title", "location", "metadata", "company", "dates"}

\* merge_job_data: the keys of the merged dict, `{**summary}` with
\* description_path added when the detail has no error
MergeJobData(detail) ==
  SummaryKeys \cup (IF detail # "error" THEN {"description_path"} ELSE {})

\* `if job_id in job_summaries and job_id in job_details`
MergeReadySummaryOnly(id, sums, dets) == id \in sums
MergeReady(id, sums, dets) == id \in sums /\ id \in DOMAIN dets

\* `job_details[job_id]` as Pipeline.run passes it to merge_job_data
DetailOf(dets, id) == IF id \in DOMAIN dets THEN dets[id] ELSE "missing"

\* the body of Pipeline.run's loop after the item was stored: merge and
\* save_job_temp when both halves are there, delete both on success, count an
\* error when merge or save raised
RunMerge(id, sums, dets, errs) ==
  IF MergeReady(id, sums, dets)
  THEN \E saveOk \in BOOLEAN :
         IF saveOk
         THEN /\ saved' = [saved EXCEPT ![id] = @ + 1]
              /\ temp_files' = With(temp_files, id, MergeJobData(DetailOf(dets, id)))
              /\ job_summaries' = sums \ {id}
              /\ job_details' = Without(dets, id)
              /\ processed_count' = processed_count + 1
              /\ error_count' = errs
         ELSE /\ job_summaries' = sums
              /\ job_details' = dets
              /\ error_count' = errs + 1
              /\ UNCHANGED <<saved, temp_files, processed_count>>
  ELSE /\ job_summaries' = sums
       /\ job_details' = dets
       /\ error_count' = errs
       /\ UNCHANGED <<saved, temp_files, processed_count>>

\* process_job_stream leaves its summaries loop when fetch_pages_generator is
\* exhausted and every summary of the last batch has been yielded
SummariesExhaustedAfterFirstPage == consumed # {} /\ batchItems = <<>>
SummariesExhausted == consumed = 1..total_pages /\ batchItems = <<>>

\* the ids of the batch all_job_ids[i:i + batch_size], 1-based start i
BatchLen(i) == Min(batch_size, Len(all_job_ids) - i + 1)

\* the job id task t of the current batch works on
TaskId(t) == all_job_ids[batchStart + t - 1]

\* job_details_generator(batch): as_completed schedules one
\* process_job_detail per id of the batch
StartBatch(i) ==
  /\ batchStart' = i
  /\ dpc' = [t \in Tasks |-> IF t <= BatchLen(i) THEN "start" ELSE "idle"]
  /\ detailStarted' = detailStarted \cup
                        {all_job_ids[k] : k \in i..(i + BatchLen(i) - 1)}
  /\ ppc' = "details"
  /\ UNCHANGED remaining_jobs

\* after the stream: remaining_jobs, the warning, finalize()
Finalize ==
  /\ remaining_jobs' = job_summaries \cup DOMAIN job_details
  /\ ppc' = "done"
  /\ dpc' = [t \in Tasks |-> "idle"]
  /\ UNCHANGED <<batchStart, detailStarted>>

\* a call of Collector._fetch_with_retry taken to its outcome, the text or the
\* exception after max_retries attempts; its steps are those of
\* CollectorFetchStep, which leave the semaphore as they found it
FetchReturns(t) ==
  /\ ppc \in {"pages", "details"}
  /\ pc[t] = "attempt"
  /\ pc' = [pc EXCEPT ![t] = "returned"]
  /\ UNCHANGED <<cfgVars, semaphore, request_lock, last_request_set, attempt,
                 sent, nfail, slotDelay, preDelay, backoff, driverVars>>

FetchRaises(t) ==
  /\ ppc \in {"pages", "details"}
  /\ pc[t] = "attempt"
  /\ pc' = [pc EXCEPT ![t] = "raised"]
  /\ UNCHANGED <<cfgVars, semaphore, request_lock, last_request_set, attempt,
                 sent, nfail, slotDelay, preDelay, backoff, driverVars>>

\* fetch_pages_generator yields the html of a fetched page;
\* job_summaries_generator parses it into the batch dict and yields it;
\* process_job_stream extends all_job_ids with its keys
PageYielded(t) ==
  /\ ppc = "pages"
  /\ batchItems = <<>>
  /\ t \in (1..total_pages) \ consumed
  /\ pc[t] = "returned"
  /\ consumed' = consumed \cup {t}
  /\ batchItems' = pageIds[t]
  /\ all_job_ids' = all_job_ids \o pageIds[t]
  /\ page_num' = page_num + 1
  /\ UNCHANGED <<fetchVars, listVars, ssVars, jpVars, total_pages, pageIds, batch_size,
                 descriptions, description_path,
                 max_concurrent_details, detail_semaphore, ppc, batchStart,
                 dpc, job_summaries, job_details, processed_count,
                 error_count, saved, temp_files, summaryRecv, detailRecv, detailStarted,
                 remaining_jobs>>

\* the parse of a fetched page raises: nothing catches it, run ends with it
PageParseRaised(t) ==
  /\ ppc = "pages"
  /\ batchItems = <<>>
  /\ t \in (1..total_pages) \ consumed
  /\ pc[t] = "returned"
  /\ consumed' = consumed \cup {t}
  /\ ppc' = "crashed"
  /\ UNCHANGED <<fetchVars, listVars, ssVars, jpVars, total_pages, pageIds, batch_size,
                 descriptions, description_path,
                 max_concurrent_details, detail_semaphore, page_num,
                 all_job_ids, batchStart, dpc, job_summaries, job_details,
                 processed_count, error_count, saved, temp_files, summaryRecv, detailRecv,
                 detailStarted, remaining_jobs, batchItems>>

\* fetch_pages_generator: the page's fetch raised, the error is printed
PageFailed(t) ==
  /\ ppc = "pages"
  /\ batchItems = <<>>
  /\ t \in (1..total_pages) \ consumed
  /\ pc[t] = "raised"
  /\ consumed' = consumed \cup {t}
  /\ UNCHANGED <<fetchVars, listVars, ssVars, jpVars, total_pages, pageIds, batch_size,
                 descriptions, description_path,
                 max_concurrent_details, detail_semaphore, ppc, page_num,
                 all_job_ids, batchStart, dpc, job_summaries, job_details,
                 processed_count, error_count, saved, temp_files, summaryRecv, detailRecv,
                 detailStarted, remaining_jobs, batchItems>>

\* process_job_stream yields one summary; Pipeline.run stores it and runs the
\* merge check
RunSummary ==
  /\ ppc = "pages"
  /\ batchItems # <<>>
  /\ LET id == Head(batchItems) IN
       /\ summaryRecv' = summaryRecv \cup {id}
       /\ RunMerge(id, job_summaries \cup {id}, job_details, error_count)
  /\ batchItems' = Tail(batchItems)
  /\ UNCHANGED <<fetchVars, listVars, ssVars, jpVars, total_pages, pageIds, batch_size,
                 descriptions, description_path,
                 max_concurrent_details, detail_semaphore, ppc, page_num,
                 consumed, all_job_ids, batchStart, dpc, detailRecv,
                 detailStarted, remaining_jobs>>

\* the summaries loop is over: the first batch of details, or the end
SummariesDone ==
  /\ ppc = "pages"
  /\ SummariesExhausted
  /\ IF Len(all_job_ids) > 0 THEN StartBatch(1) ELSE Finalize
  /\ UNCHANGED <<fetchVars, listVars, ssVars, jpVars, total_pages, pageIds, batch_size,
                 descriptions, description_path,
                 max_concurrent_details, detail_semaphore, page_num, consumed,
                 all_job_ids, job_summaries, job_details, processed_count,
                 error_count, saved, temp_files, summaryRecv, detailRecv, batchItems>>

\* what process_job_detail returns from its except clause: the record
\* {"id": job_id, "error": str(e)}
ErrorDetailSwallowed == "consumed"
ErrorDetail == "error"

\* process_job_detail: take a slot of Pipeline.semaphore and call
\* collector.fetch_detail_page(None, job_url)
ProcessJobDetailEnter(t) ==
  /\ ppc = "details"
  /\ dpc[t] = "start"
  /\ detail_semaphore > 0
  /\ detail_semaphore' = detail_semaphore - 1
  /\ dpc' = [dpc EXCEPT ![t] = "fetching"]
  /\ pc' = [pc EXCEPT ![t] = LoopPc(0)]
  /\ attempt' = [attempt EXCEPT ![t] = 0]
  /\ sent' = [sent EXCEPT ![t] = 0]
  /\ nfail' = [nfail EXCEPT ![t] = 0]
  /\ UNCHANGED <<cfgVars, semaphore, request_lock, last_request_set,
                 slotDelay, preDelay, backoff, listVars, ssVars, jpVars,
                 total_pages, pageIds,
                 batch_size,
                 descriptions, description_path, max_concurrent_details, ppc, page_num, consumed,
                 all_job_ids, batchStart, job_summaries, job_details,
                 processed_count, error_count, saved, temp_files, summaryRecv, detailRecv,
                 detailStarted, remaining_jobs, batchItems>>

\* process_job_detail: the page was fetched; parse_job_detail returns the
\* detail and the description text, or raises (a detail with error)
ProcessJobDetailParsed(t) ==
  /\ ppc = "details"
  /\ dpc[t] = "fetching"
  /\ pc[t] = "returned"
  /\ \E ok \in BOOLEAN :
       IF ok
       THEN /\ dpc' = [dpc EXCEPT ![t] = "parsed"]
            /\ UNCHANGED detail_semaphore
       ELSE /\ dpc' = [dpc EXCEPT ![t] = ErrorDetail]
            /\ detail_semaphore' = detail_semaphore + 1
  /\ pc' = [pc EXCEPT ![t] = "idle"]
  /\ UNCHANGED <<cfgVars, semaphore, request_lock, last_request_set, attempt,
                 sent, nfail, slotDelay, preDelay, backoff, listVars, ssVars,
                 jpVars, total_pages, pageIds, batch_size, descriptions,
                 description_path, max_concurrent_details,
                 ppc, page_num, consumed, all_job_ids, batchStart,
                 job_summaries, job_details, processed_count, error_count,
                 saved, temp_files, summaryRecv, detailRecv, detailStarted, remaining_jobs,
                 batchItems>>

\* process_job_detail: `await self.output_manager.save_description(job_id,
\* description)` writes the file and its path is put into the detail, which
\* is returned; or it raises (a detail with error)
ProcessJobDetailSaved(t) ==
  /\ ppc = "details"
  /\ dpc[t] = "parsed"
  /\ \E ok \in BOOLEAN :
       IF ok
       THEN /\ descriptions' = SaveDescription(descriptions, TaskId(t))
            /\ description_path' =
                 [description_path EXCEPT ![t] = DescriptionPath(TaskId(t))]
            /\ dpc' = [dpc EXCEPT ![t] = "ok"]
       ELSE /\ dpc' = [dpc EXCEPT ![t] = ErrorDetail]
            /\ UNCHANGED <<descriptions, description_path>>
  /\ detail_semaphore' = detail_semaphore + 1
  /\ UNCHANGED <<fetchVars, listVars, ssVars, jpVars, total_pages, pageIds,
                 batch_size, max_concurrent_details,
                 ppc, page_num, consumed, all_job_ids, batchStart,
                 job_summaries, job_details, processed_count, error_count,
                 saved, temp_files, summaryRecv, detailRecv, detailStarted, remaining_jobs,
                 batchItems>>

\* process_job_detail: the fetch exhausted its retries, a detail with error
ProcessJobDetailFetchError(t) ==
  /\ ppc = "details"
  /\ dpc[t] = "fetching"
  /\ pc[t] = "raised"
  /\ dpc' = [dpc EXCEPT ![t] = ErrorDetail]
  /\ pc' = [pc EXCEPT ![t] = "idle"]
  /\ detail_semaphore' = detail_semaphore + 1
  /\ UNCHANGED <<cfgVars, semaphore, request_lock, last_request_set, attempt,
                 sent, nfail, slotDelay, preDelay, backoff, listVars, ssVars, jpVars,
                 total_pages, pageIds, batch_size,
                 descriptions, description_path, max_concurrent_details,
                 ppc, page_num, consumed, all_job_ids, batchStart,
                 job_summaries, job_details, processed_count, error_count,
                 saved, temp_files, summaryRecv, detailRecv, detailStarted, remaining_jobs,
                 batchItems>>

\* job_details_generator yields a completed detail; Pipeline.run stores it,
\* counts its error and runs the merge check
RunDetail(t) ==
  /\ ppc = "details"
  /\ dpc[t] \in {"ok", "error"}
  /\ LET id == TaskId(t) IN
       /\ detailRecv' = detailRecv \cup {id}
       /\ RunMerge(id, job_summaries, With(job_details, id, dpc[t]),
                   error_count + (IF dpc[t] = "error" THEN 1 ELSE 0))
  /\ dpc' = [dpc EXCEPT ![t] = "consumed"]
  /\ description_path' = [description_path EXCEPT ![t] = NoPath]
  /\ UNCHANGED <<fetchVars, listVars, ssVars, jpVars, total_pages, pageIds, batch_size,
                 descriptions,
                 max_concurrent_details, detail_semaphore, ppc, page_num,
                 consumed, all_job_ids, batchStart, summaryRecv,
                 detailStarted, remaining_jobs, batchItems>>

\* every detail of the batch was yielded: the next batch, or the end
BatchDone ==
  /\ ppc = "details"
  /\ \A t \in Tasks : dpc[t] \in {"consumed", "idle"}
  /\ IF batchStart + batch_size <= Len(all_job_ids)
     THEN StartBatch(batchStart + batch_size)
     ELSE Finalize
  /\ UNCHANGED <<fetchVars, listVars, ssVars, jpVars, total_pages, pageIds, batch_size,
                 descriptions, description_path,
                 max_concurrent_details, detail_semaphore, page_num, consumed,
                 all_job_ids, job_summaries, job_details, processed_count,
                 error_count, saved, temp_files, summaryRecv, detailRecv, batchItems>>

\* a Pipeline as constructed (its Collector with the default max_retries and
\* max_concurrent), fetch_pages_generator having created one fetch_page task
\* per page
PipeInit ==
  /\ variant = "collector"
  /\ max_retries = 3
  /\ max_concurrent = 5
  /\ rate_limit_delay = 1000
  /\ semaphore = max_concurrent
  /\ request_lock = 0
  /\ last_request_set = FALSE
  /\ job_count \in {n \in {1, PAGE_SIZE + 1} : TotalPages(n) <= NumTasks}
  /\ total_pages = TotalPages(job_count)
  /\ pc = [t \in Tasks |-> IF t <= total_pages THEN LoopPc(0) ELSE "idle"]
  /\ attempt = [t \in Tasks |-> 0]
  /\ sent = [t \in Tasks |-> 0]
  /\ nfail = [t \in Tasks |-> 0]
  /\ slotDelay = [t \in Tasks |-> 0]
  /\ preDelay = [t \in Tasks |-> 0]
  /\ backoff = [t \in Tasks |-> 0]
  /\ ListIdleRest
  /\ SsIdle
  /\ SpIdle
  /\ DbIdle
  /\ MgrIdle
  /\ FacIdle
  /\ RowIdle
  /\ OmIdle
  /\ pageIds \in [1..total_pages -> PageKeySeqs]
  /\ batch_size \in 1..NumTasks
  /\ max_concurrent_details \in 1..MaxConcurrent
  /\ detail_semaphore = max_concurrent_details
  /\ ppc = "pages"
  /\ page_num = 1
  /\ consumed = {}
  /\ all_job_ids = <<>>
  /\ batchStart = 0
  /\ dpc = [t \in Tasks |-> "idle"]
  /\ job_summaries = {}
  /\ job_details = <<>>
  /\ processed_count = 0
  /\ error_count = 0
  /\ saved = [id \in Ids |-> 0]
  /\ temp_files = <<>>
  /\ summaryRecv = {}
  /\ detailRecv = {}
  /\ detailStarted = {}
  /\ remaining_jobs = {}
  /\ batchItems = <<>>
  /\ descriptions = {}
  /\ description_path = [t \in Tasks |-> NoPath]

PipeNext ==
  \/ \E t \in Tasks : FetchReturns(t)
  \/ \E t \in Tasks : FetchRaises(t)
  \/ \E t \in Tasks : PageYielded(t)
  \/ \E t \in Tasks : PageParseRaised(t)
  \/ \E t \in Tasks : PageFailed(t)
  \/ RunSummary
  \/ SummariesDone
  \/ \E t \in Tasks : ProcessJobDetailEnter(t)
  \/ \E t \in Tasks : ProcessJobDetailParsed(t)
  \/ \E t \in Tasks : ProcessJobDetailSaved(t)
  \/ \E t \in Tasks : ProcessJobDetailFetchError(t)
  \/ \E t \in Tasks : RunDetail(t)
  \/ BatchDone

SpecPipe == PipeInit /\ [][PipeNext]_vars

\* the same Pipeline with the Collector._fetch_with_retry call of every detail
\* fetch taken step by step through _rate_limiter
DetailFetchStep(t) ==
  /\ ppc = "details"
  /\ CollectorFetchStep(t)

\* a list-page fetch taken to its outcome
PageFetchReturns(t) == ppc = "pages" /\ FetchReturns(t)

PageFetchRaises(t) == ppc = "pages" /\ FetchRaises(t)

DetailNext ==
  \/ \E t \in Tasks : PageFetchReturns(t)
  \/ \E t \in Tasks : PageFetchRaises(t)
  \/ \E t \in Tasks : DetailFetchStep(t)
  \/ \E t \in Tasks : PageYielded(t)
  \/ \E t \in Tasks : PageParseRaised(t)
  \/ \E t \in Tasks : PageFailed(t)
  \/ RunSummary
  \/ SummariesDone
  \/ \E t \in Tasks : ProcessJobDetailEnter(t)
  \/ \E t \in Tasks : ProcessJobDetailParsed(t)
  \/ \E t \in Tasks : ProcessJobDetailSaved(t)
  \/ \E t \in Tasks : ProcessJobDetailFetchError(t)
  \/ \E t \in Tasks : RunDetail(t)
  \/ BatchDone

\* a Pipeline constructed for one list page on which every id is listed once
DetailInit ==
  /\ PipeInit
  /\ job_count = 1
  /\ pageIds = <<SeqOf(Ids)>>

SpecDetail == DetailInit /\ [][DetailNext]_vars

\* ------------------------------------------------------ merger: properties

\* what the run produced for an id: records handed to the sink, plus the
\* incomplete tag if the id is among remaining_jobs
Outcomes(id) == saved[id] + (IF id \in remaining_jobs THEN 1 ELSE 0)

C8_BothHalvesBeforeMerge ==
  \A id \in DOMAIN saved :
    saved[id] > 0 => (id \in summaryRecv /\ id \in detailRecv)

\* the second id of the stream is merged while the detail of the first one
\* has not arrived yet
C8_Witness ==
  /\ Len(all_job_ids) >= 2
  /\ all_job_ids[1] # all_job_ids[2]
  /\ saved[all_job_ids[2]] = 1
  /\ all_job_ids[2] \in summaryRecv /\ all_job_ids[2] \in detailRecv
  /\ all_job_ids[1] \notin detailRecv

C11_IndependentSemaphores ==
  /\ \A t \in Tasks : dpc[t] = "fetching" => ~HoldsSlot(t)
  /\ ppc = "details" => semaphore = max_concurrent

CollectorConstruct ==
  /\ ppc = "new"
  /\ total_pages' = TotalPages(job_count)
  /\ ppc' = "constructed"
  /\ UNCHANGED <<fetchVars, listVars, ssVars, jpVars, pageIds, batch_size,
                 descriptions, description_path,
                 max_concurrent_details, detail_semaphore, page_num, consumed,
                 all_job_ids, batchStart, dpc, job_summaries, job_details,
                 processed_count, error_count, saved, temp_files, summaryRecv, detailRecv,
                 detailStarted, remaining_jobs, batchItems>>

\* fetch_pages_generator: one fetch_page per page in range(1, total_pages + 1)
FetchPagesGeneratorStart ==
  /\ ppc = "constructed"
  /\ pc' = [t \in Tasks |-> IF t <= total_pages THEN LoopPc(0) ELSE "idle"]
  /\ ppc' = "pages"
  /\ UNCHANGED <<cfgVars, semaphore, request_lock, last_request_set, attempt,
                 sent, nfail, slotDelay, preDelay, backoff, listVars, ssVars, jpVars,
                 total_pages, pageIds, batch_size,
                 descriptions, description_path, max_concurrent_details,
                 detail_semaphore, page_num, consumed, all_job_ids, batchStart,
                 dpc, job_summaries, job_details, processed_count, error_count,
                 saved, temp_files, summaryRecv, detailRecv, detailStarted, remaining_jobs,
                 batchItems>>

\* a Collector is about to be constructed for a job_count that needs at most
\* NumTasks list pages
PagesInit ==
  /\ variant = "collector"
  /\ max_retries = 3
  /\ max_concurrent = 5
  /\ rate_limit_delay = 1000
  /\ semaphore = max_concurrent
  /\ request_lock = 0
  /\ last_request_set = FALSE
  /\ pc = [t \in Tasks |-> "idle"]
  /\ attempt = [t \in Tasks |-> 0]
  /\ sent = [t \in Tasks |-> 0]
  /\ nfail = [t \in Tasks |-> 0]
  /\ slotDelay = [t \in Tasks |-> 0]
  /\ preDelay = [t \in Tasks |-> 0]
  /\ backoff = [t \in Tasks |-> 0]
  /\ job_count \in 1..(NumTasks * PAGE_SIZE)
  /\ ListIdleRest
  /\ SsIdle
  /\ SpIdle
  /\ DbIdle
  /\ MgrIdle
  /\ FacIdle
  /\ RowIdle
  /\ OmIdle
  /\ total_pages = 0
  /\ pageIds = <<>>
  /\ batch_size = 0
  /\ max_concurrent_details = 0
  /\ detail_semaphore = 0
  /\ ppc = "new"
  /\ page_num = 0
  /\ consumed = {}
  /\ all_job_ids = <<>>
  /\ batchStart = 0
  /\ dpc = [t \in Tasks |-> "idle"]
  /\ job_summaries = {}
  /\ job_details = <<>>
  /\ processed_count = 0
  /\ error_count = 0
  /\ saved = <<>>
  /\ temp_files = <<>>
  /\ summaryRecv = {}
  /\ detailRecv = {}
  /\ detailStarted = {}
  /\ remaining_jobs = {}
  /\ batchItems = <<>>
  /\ descriptions = {}
  /\ description_path = [t \in Tasks |-> NoPath]

PagesNext ==
  \/ CollectorConstruct
  \/ FetchPagesGeneratorStart
  \/ \E t \in Tasks : PageFetchReturns(t)
  \/ \E t \in Tasks : PageFetchRaises(t)

SpecPages == PagesInit /\ [][PagesNext]_vars

\* the list pages for which a fetch was created
PlannedPages == {t \in Tasks : pc[t] # "idle"}

\* the list pages whose fetch has made its requests
RequestedPages == {t \in Tasks : pc[t] \in {"returned", "raised"}}

\* C18: for every job_count > 0 the number of list pages planned is
\* ceil(job_count / PAGE_SIZE), the least k with k * PAGE_SIZE >= job_count,
\* and the pages planned and requested are exactly the pages 1..k.
C18_PageCount ==
  /\ ppc # "new" =>
       /\ total_pages * PAGE_SIZE >= job_count
       /\ (total_pages - 1) * PAGE_SIZE < job_count
  /\ ppc = "pages" =>
       /\ PlannedPages = 1..total_pages
       /\ RequestedPages \subseteq 1..total_pages

\* job_count is one more than a page holds: two pages were planned and both
\* have been requested
C18_Witness ==
  /\ job_count = PAGE_SIZE + 1
  /\ ppc = "pages"
  /\ total_pages = 2
  /\ RequestedPages = {1, 2}

\* ---------------------------------------- JobPipeline.run_full_pipeline

\* process_job_details_batch(all_jobs[i:i + batch_size]): one get_job_details
\* per job of the batch, handed to asyncio.gather
GatherStart(all_jobs, i) ==
  LET n == Min(batch_size, Len(all_jobs) - i + 1) IN
    /\ batchStart' = i
    /\ dpc' = [t \in Tasks |-> IF t <= n THEN "start" ELSE "idle"]
    /\ detailStarted' = detailStarted \cup
                          {all_jobs[k] : k \in i..(i + n - 1)}
    /\ ppc' = "phase2"

\* phase 1 is over: scrape_job_listings has yielded the listings, each was
\* appended to all_jobs and saved; phase 2 starts with the first batch
ScrapeJobListingsDone ==
  /\ ppc = "phase1"
  /\ \E all_jobs \in PageKeySeqs :
       /\ all_job_ids' = all_jobs
       /\ IF Len(all_jobs) > 0
          THEN GatherStart(all_jobs, 1)
          ELSE ppc' = "phase3" /\ UNCHANGED <<batchStart, dpc, detailStarted>>
  /\ UNCHANGED <<fetchVars, listVars, ssVars, jpVars, total_pages, pageIds,
                 batch_size,
                 descriptions, description_path, max_concurrent_details, detail_semaphore,
                 page_num, consumed, job_summaries, job_details,
                 processed_count, error_count, saved, temp_files, summaryRecv, detailRecv,
                 remaining_jobs, batchItems>>

\* a detail_semaphore that hands out a slot whatever its counter says
DetailSlotAlways == TRUE

\* asyncio.Semaphore(max_concurrent_details): a slot is free
DetailSlotFree == detail_semaphore > 0

\* get_job_details: `async with self.detail_semaphore`
GetJobDetailsEnter(t) ==
  /\ ppc = "phase2"
  /\ dpc[t] = "start"
  /\ DetailSlotFree
  /\ detail_semaphore' = detail_semaphore - 1
  /\ dpc' = [dpc EXCEPT ![t] = "fetching"]
  /\ UNCHANGED <<fetchVars, listVars, ssVars, jpVars, total_pages, pageIds,
                 batch_size,
                 descriptions, description_path, max_concurrent_details, ppc, page_num, consumed,
                 all_job_ids, batchStart, job_summaries, job_details,
                 processed_count, error_count, saved, temp_files, summaryRecv, detailRecv,
                 detailStarted, remaining_jobs, batchItems>>

\* get_job_details: scraper.get_job_details has returned the details, or an
\* exception was caught and the error dict is returned; the slot is released
GetJobDetailsReturn(t) ==
  /\ ppc = "phase2"
  /\ dpc[t] = "fetching"
  /\ \E ok \in BOOLEAN : dpc' = [dpc EXCEPT ![t] = IF ok THEN "ok" ELSE "error"]
  /\ detail_semaphore' = detail_semaphore + 1
  /\ UNCHANGED <<fetchVars, listVars, ssVars, jpVars, total_pages, pageIds,
                 batch_size,
                 descriptions, description_path, max_concurrent_details, ppc, page_num, consumed,
                 all_job_ids, batchStart, job_summaries, job_details,
                 processed_count, error_count, saved, temp_files, summaryRecv, detailRecv,
                 detailStarted, remaining_jobs, batchItems>>

\* the results of the batch, in the order of the batch
BatchResults ==
  [t \in 1..BatchLen(batchStart) |->
     [id |-> TaskId(t), error |-> dpc[t] = "error"]]

\* asyncio.gather returns once every get_job_details of the batch has
\* returned; detailed_jobs.extend(batch_details); the next batch, or phase 3
GatherReturns ==
  /\ ppc = "phase2"
  /\ \A t \in 1..BatchLen(batchStart) : dpc[t] \in {"ok", "error"}
  /\ detailed_jobs' = detailed_jobs \o BatchResults
  /\ detailRecv' = detailRecv \cup {TaskId(t) : t \in 1..BatchLen(batchStart)}
  /\ IF batchStart + batch_size <= Len(all_job_ids)
     THEN GatherStart(all_job_ids, batchStart + batch_size)
     ELSE /\ ppc' = "phase3"
          /\ dpc' = [t \in Tasks |-> "idle"]
          /\ UNCHANGED <<batchStart, detailStarted>>
  /\ UNCHANGED <<fetchVars, listVars, ssVars, spVars, dbVars, mgrVars, facVars, rowVars, omVars,
                 details_saved,
                 total_pages,
                 pageIds, batch_size,
                 descriptions, description_path, max_concurrent_details,
                 detail_semaphore, page_num, consumed, all_job_ids,
                 job_summaries, job_details, processed_count, error_count,
                 saved, temp_files, summaryRecv, remaining_jobs, batchItems>>

\* phase 3: db_manager.save_job_details for the next detail; it returns True,
\* or logs its exception and returns False
SaveJobDetails ==
  /\ ppc = "phase3"
  /\ details_saved < Len(detailed_jobs)
  /\ \E ok \in BOOLEAN :
       saved' = IF ok
                THEN [saved EXCEPT ![detailed_jobs[details_saved + 1].id] = @ + 1]
                ELSE saved
  /\ details_saved' = details_saved + 1
  /\ UNCHANGED <<fetchVars, listVars, ssVars, spVars, dbVars, mgrVars, facVars, rowVars, omVars,
                 detailed_jobs,
                 total_pages,
                 pageIds, batch_size,
                 descriptions, description_path, max_concurrent_details,
                 detail_semaphore, ppc, page_num, consumed, all_job_ids,
                 batchStart, dpc, job_summaries, job_details, processed_count,
                 error_count, temp_files, summaryRecv, detailRecv,
                 detailStarted, remaining_jobs, batchItems>>

\* every detail was handed to the sink: the summary is returned
RunFullPipelineReturn ==
  /\ ppc = "phase3"
  /\ details_saved = Len(detailed_jobs)
  /\ ppc' = "done"
  /\ UNCHANGED <<fetchVars, listVars, ssVars, jpVars, total_pages, pageIds,
                 batch_size,
                 descriptions, description_path, max_concurrent_details, detail_semaphore,
                 page_num, consumed, all_job_ids, batchStart, dpc,
                 job_summaries, job_details, processed_count, error_count,
                 saved, temp_files, summaryRecv, detailRecv, detailStarted,
                 remaining_jobs, batchItems>>

\* a JobPipeline as constructed, run_full_pipeline about to start phase 1
JobPipeInit ==
  /\ variant = "base"
  /\ max_retries = 3
  /\ max_concurrent = 5
  /\ rate_limit_delay = 1000
  /\ semaphore = max_concurrent
  /\ request_lock = 0
  /\ last_request_set = FALSE
  /\ pc = [t \in Tasks |-> "idle"]
  /\ attempt = [t \in Tasks |-> 0]
  /\ sent = [t \in Tasks |-> 0]
  /\ nfail = [t \in Tasks |-> 0]
  /\ slotDelay = [t \in Tasks |-> 0]
  /\ preDelay = [t \in Tasks |-> 0]
  /\ backoff = [t \in Tasks |-> 0]
  /\ job_count = NumIds
  /\ ListIdleRest
  /\ SsIdle
  /\ SpIdle
  /\ DbIdle
  /\ MgrIdle
  /\ FacIdle
  /\ RowIdle
  /\ OmIdle
  /\ total_pages = 0
  /\ pageIds = <<>>
  /\ batch_size \in 1..NumTasks
  /\ max_concurrent_details \in 1..MaxConcurrent
  /\ detail_semaphore = max_concurrent_details
  /\ ppc = "phase1"
  /\ page_num = 0
  /\ consumed = {}
  /\ all_job_ids = <<>>
  /\ batchStart = 0
  /\ dpc = [t \in Tasks |-> "idle"]
  /\ job_summaries = {}
  /\ job_details = <<>>
  /\ processed_count = 0
  /\ error_count = 0
  /\ saved = [id \in Ids |-> 0]
  /\ temp_files = <<>>
  /\ summaryRecv = {}
  /\ detailRecv = {}
  /\ detailStarted = {}
  /\ remaining_jobs = {}
  /\ batchItems = <<>>
  /\ descriptions = {}
  /\ description_path = [t \in Tasks |-> NoPath]

JobPipeNext ==
  \/ ScrapeJobListingsDone
  \/ \E t \in Tasks : GetJobDetailsEnter(t)
  \/ \E t \in Tasks : GetJobDetailsReturn(t)
  \/ GatherReturns
  \/ SaveJobDetails
  \/ RunFullPipelineReturn

SpecJobPipe == JobPipeInit /\ [][JobPipeNext]_vars

\* C19: the detail stream emits the result for an id as soon as its fetch and
\* parse have completed: whenever a get_job_details of the running batch has
\* returned, its result can be handed on at once, without waiting for the
\* other ids of the batch.
C19_EmittedOnCompletion ==
  (ppc = "phase2" /\ \E t \in Tasks : dpc[t] \in {"ok", "error"})
    => ENABLED GatherReturns

\* ------------------------------------------- Pipeline: description blobs

RunEnded == ppc \in {"done", "crashed"}

AllJobsWritten ==
  /\ ppc = "done"
  /\ Cardinality(Range(all_job_ids)) = Len(all_job_ids)
  /\ remaining_jobs = {}

Yielded == IF platform = "ss_ge" THEN Len(ssYielded) ELSE total_jobs_found

\* the listing stream has ended
StreamEnded == lpc = "done" \/ cpc = "done"

\* the body of the `async for` up to the await: jobs_processed += 1,
\* result['total_jobs_found'] = jobs_processed, the platform and the time are
\* put into the listing and save_job_listing is awaited
ProcessListing ==
  /\ spc = "streaming"
  /\ jobs_processed < Yielded
  /\ jobs_processed' = jobs_processed + 1
  /\ spc' = "saving"
  /\ UNCHANGED <<fetchVars, listVars, pipeVars, ssVars, dbVars, mgrVars, facVars, rowVars, omVars,
                 detailed_jobs,
                 details_saved, successful_saves, failed_saves>>

\* a save that returned False and is counted nowhere
FailedAfterSaveUncounted(ok) == failed_saves

\* `else: result['failed_saves'] += 1` and an entry in result['errors']
FailedAfterSave(ok) == IF ok THEN failed_saves ELSE failed_saves + 1

\* save_job_listing returns True (successful_saves += 1) or, having caught
\* its exception, False (failed_saves += 1); the body is over
SaveJobListing ==
  /\ spc = "saving"
  /\ \E ok \in BOOLEAN :
       /\ successful_saves' = IF ok THEN successful_saves + 1
                              ELSE successful_saves
       /\ failed_saves' = FailedAfterSave(ok)
  /\ spc' = "streaming"
  /\ UNCHANGED <<fetchVars, listVars, pipeVars, ssVars, dbVars, mgrVars, facVars, rowVars, omVars,
                 detailed_jobs,
                 details_saved, jobs_processed>>

\* the generator runs when the `async for` asks it for the next listing
GeneratorStep ==
  /\ spc = "streaming"
  /\ jobs_processed = Yielded
  /\ \/ GetJobListingsLoop
     \/ BaseFetchStep(1)
     \/ GetJobListingsParsed
     \/ GetJobListingsParseError
     \/ GetJobListingsFetchError
     \/ GetJobListingsYield
     \/ GetJobListingsPageDone
     \/ ConsumerGet
     \/ ConsumerResume
     \/ ConsumerTimeout
     \/ ConsumerCheck
     \/ ConsumerShutdown
     \/ StreamEnd

\* a step of one scrape_pages_worker thread of SsGeScraper
WorkerStep(w) ==
  \/ WorkerLoop(w)
  \/ WorkerGet(w)
  \/ WorkerAdd(w)
  \/ WorkerPageDone(w)

\* the stream is exhausted: the result is completed, logged and returned
ScrapePlatformReturn ==
  /\ spc = "streaming"
  /\ StreamEnded
  /\ jobs_processed = Yielded
  /\ spc' = "returned"
  /\ UNCHANGED <<fetchVars, listVars, pipeVars, ssVars, dbVars, mgrVars, facVars, rowVars, omVars,
                 detailed_jobs,
                 details_saved, jobs_processed, successful_saves,
                 failed_saves>>

\* the stream raises when it is asked for the next listing (SsGeScraper
\* re-raises what its outer try catches): the except clause of
\* scrape_platform appends the error and returns the result as it stands
StreamRaises ==
  /\ spc = "streaming"
  /\ platform = "ss_ge"
  /\ ~StreamEnded
  /\ jobs_processed = Yielded
  /\ spc' = "returned_error"
  /\ UNCHANGED <<fetchVars, listVars, pipeVars, ssVars, dbVars, mgrVars, facVars, rowVars, omVars,
                 detailed_jobs,
                 details_saved, jobs_processed, successful_saves,
                 failed_saves>>

\* the sites scrape_platform is run on: nothing listed past page ShortPages
ShortSite == \A p \in DOMAIN site : p > ShortPages => site[p] = 0

\* _filter_jobs passes every row of a page or none of them
FilterAllOrNone == \A p \in DOMAIN sitePass : sitePass[p] \in {0, site[p]}

\* a jobs.ss.ge page shows at most one job card
OneCardPages == \A p \in DOMAIN ssSite : Len(ssSite[p]) <= 1

\* scrape_platform has created the scraper, ScraperFactory.create_scraper
\* passing no keyword (max_retries is the default), and starts the stream
ScrapeInit ==
  /\ ListingInit \/ CvGeInit \/ SsGeInit
  /\ max_retries = 3
  /\ max_concurrent = MaxConcurrent
  /\ job_count <= NumIds
  /\ ShortSite
  /\ FilterAllOrNone
  /\ OneCardPages
  /\ spc = "streaming"
  /\ jobs_processed = 0
  /\ successful_saves = 0
  /\ failed_saves = 0

ScrapeNext ==
  \/ GeneratorStep
  \/ \E w \in Workers : WorkerStep(w)
  \/ ProcessListing
  \/ SaveJobListing
  \/ ScrapePlatformReturn
  \/ StreamRaises

\* the event loop runs what is runnable and each worker thread is scheduled
ScrapeFairness ==
  /\ WF_vars(GeneratorStep \/ ProcessListing \/ SaveJobListing
               \/ ScrapePlatformReturn)
  /\ \A w \in Workers : WF_vars(WorkerStep(w))

\* -------------------------------------------- the two runs, to their return

\* a run of scrape_platform or a run of JobPipeline.run_full_pipeline
RunsInit == ScrapeInit \/ JobPipeInit

RunsNext == ScrapeNext \/ JobPipeNext

\* as ScrapeFairness; the event loop also runs the runnable coroutines of
\* run_full_pipeline
SpecRuns ==
  RunsInit /\ [][RunsNext]_vars /\ ScrapeFairness /\ WF_vars(JobPipeNext)

\* scrape_platform has returned its result, or run_full_pipeline its summary
RunReturned == spc \in {"returned", "returned_error"} \/ ppc = "done"

\* C25: every run of scrape_platform and of run_full_pipeline, with any
\* fetch, parse or sink write failing, comes to return its summary
C25_Terminates == <>RunReturned

\* scrape_platform has returned after a list page failed and a save failed
C25_Witness ==
  /\ spc = "returned"
  /\ failed_saves > 0
  /\ failedPages \cup parseErrPages # {}

\* every list page the stream asked for failed to be fetched
EveryFetchFailed == pagesRequested # {} /\ failedPages = pagesRequested

\* C26: when scrape_platform returns after every fetch of the run failed,
\* result['failed_saves'] (and the length of result['errors']) is at least
\* the number of fetches that failed
C26_FailuresCounted ==
  (spc = "returned" /\ EveryFetchFailed) =>
    failed_saves >= Cardinality(failedPages)

\* ------------------------------------------------ ScrapingConfig unchecked

\* SsGeScraper's consumer loop `while total_jobs_found < config.job_count`
\* before its first round
ConsumerStart == IF 0 < job_count THEN "get" ELSE "shutdown"

\* scrape_platform is called with a ScrapingConfig whose job_count is not
\* positive (the dataclass takes any int) and starts the stream of a
\* BaseScraper or of SsGeScraper
NonPositiveInit ==
  /\ ListingBase
  /\ max_retries = 3
  /\ max_concurrent = MaxConcurrent
  /\ job_count \in {-1, 0}
  /\ \/ /\ platform = "generic"
        /\ site \in [1..ShortPages -> 0..MaxRows]
        /\ sitePass = site
        /\ lpc = "loop"
        /\ SsIdle
     \/ /\ platform = "ss_ge"
        /\ site = <<>>
        /\ sitePass = <<>>
        /\ lpc = "idle"
        /\ ssSite \in [SsSitePages -> PageKeySeqs]
        /\ OneCardPages
        /\ ss_page = [w \in Workers |-> 1 + w]
        /\ wpc = [w \in Workers |-> "loop"]
        /\ wrows = [w \in Workers |-> <<>>]
        /\ stop_scraping = FALSE
        /\ jobs_seen = {}
        /\ jobs_queue = <<>>
        /\ cpc = ConsumerStart
        /\ ssYielded = <<>>
        /\ detailed_jobs = <<>>
        /\ details_saved = 0
  /\ siteIds = DistinctRows(site)
  /\ spc = "streaming"
  /\ jobs_processed = 0
  /\ successful_saves = 0
  /\ failed_saves = 0

\* the runs of any ScrapingConfig
\* a run starts with any configuration
ConfigInit == RunsInit \/ NonPositiveInit

SpecConfig == ConfigInit /\ [][RunsNext]_vars

\* C27: a scrape_platform run whose job_count is not positive is rejected:
\* it requests no page and does not return a result as a completed run does
C27_InvalidRejected ==
  (spc # "idle" /\ job_count <= 0) =>
    (pagesRequested = {} /\ spc # "returned")

\* ---------------------------------------------------------------------
\* DatabaseOutputManager: the tables behind save_job_listing and
\* save_job_details, written by two runs one after the other.
\* ---------------------------------------------------------------------

\* the platforms the two runs scrape
RunPlatforms == {"jobs_ge", "indeed"}

\* job_data.get('requirements') of the jobs of a request: none, or one
\* requirement each
RequirementLists == {<<>>, <<"requirement">>}

\* the saves of one run: every listing of the request, then every detail
RunSaves ==
  [i \in 1..(2 * NumIds) |->
     IF i <= NumIds THEN <<"job_listings", i>>
     ELSE <<"job_details", i - NumIds>>]

\* _prepare_job_listing_data: the row a run binds for a job
ListingRow(id) ==
  [id |-> id, platform |-> dbRequest.platform[dbRun], scraped_date |-> dbRun]

\* job_data.get('description', '') of a dict without the key
NoDescription == <<>>

\* JobPipeline.get_job_details: the details the scraper returned for the job,
\* or, when the fetch raised, the dict {'id', 'platform', 'error',
\* '_detailed_at'}, which has no description
FetchedDescription(id) ==
  IF id \in dbRequest.failed[dbRun]
  THEN NoDescription
  ELSE <<dbRequest.platform[dbRun], id>>

\* _prepare_job_details_data: the row a run binds for a job
DetailsRow(id) ==
  [id |-> id, platform |-> dbRequest.platform[dbRun],
   description |-> FetchedDescription(id), scraped_date |-> dbRun]

\* INSERT INTO job_listings ... ON CONFLICT (id) DO UPDATE SET
\* updated_at, scraped_date
UpsertListing(tbl, row) ==
  IF \E r \in tbl : r.id = row.id
  THEN {IF r.id = row.id
        THEN [r EXCEPT !.scraped_date = row.scraped_date]
        ELSE r : r \in tbl}
  ELSE tbl \cup {row}

\* INSERT INTO job_details ... ON CONFLICT (id) DO UPDATE SET updated_at,
\* scraped_date, description, experience_level, education_level
UpsertDetails(tbl, row) ==
  IF \E r \in tbl : r.id = row.id
  THEN {IF r.id = row.id
        THEN [r EXCEPT !.scraped_date = row.scraped_date,
                       !.description = row.description]
        ELSE r : r \in tbl}
  ELSE tbl \cup {row}

\* _save_job_requirements: one INSERT INTO job_requirements per requirement
SaveJobRequirements(tbl, id, requirements) ==
  tbl \o [i \in 1..Len(requirements) |->
            [job_id |-> id, requirement |-> requirements[i]]]

\* rows of each table that belong to a job id
RowsOf(id) ==
  [job_listings |-> Cardinality({r \in tbl_job_listings : r.id = id}),
   job_details |-> Cardinality({r \in tbl_job_details : r.id = id}),
   job_requirements |->
     Cardinality({i \in DOMAIN tbl_job_requirements :
                    tbl_job_requirements[i].job_id = id})]

\* the first run starts on empty tables
DbInit ==
  /\ FetchInit
  /\ ListIdle
  /\ PipeIdle
  /\ SsIdle
  /\ SpIdle
  /\ MgrIdle
  /\ FacIdle
  /\ RowIdle
  /\ OmIdle
  /\ tbl_job_listings = {}
  /\ tbl_job_details = {}
  /\ tbl_job_requirements = <<>>
  /\ dbRequest \in [platform : [1..2 -> RunPlatforms],
                    requirements : RequirementLists,
                    failed : [1..2 -> {{}}]]
  /\ dbRequest.platform[1] = "jobs_ge"
  /\ dbRun = 1
  /\ dbTodo = RunSaves
  /\ dbResults = {}
  /\ dbRowsFirst = <<>>

\* save_job_listing: the upsert commits and True is returned, or an
\* exception of the session is caught and False is returned
DbSaveJobListing ==
  /\ dbRun \in {1, 2}
  /\ dbTodo # <<>>
  /\ Head(dbTodo)[1] = "job_listings"
  /\ LET id == Head(dbTodo)[2] IN
       \/ /\ tbl_job_listings' = UpsertListing(tbl_job_listings, ListingRow(id))
          /\ dbResults' = dbResults \cup {<<dbRun, "job_listings", id>>}
       \/ UNCHANGED <<tbl_job_listings, dbResults>>
  /\ dbTodo' = Tail(dbTodo)
  /\ UNCHANGED <<fetchVars, listVars, pipeVars, ssVars, spVars, mgrVars, facVars, rowVars, omVars,
                 detailed_jobs,
                 details_saved, tbl_job_details, tbl_job_requirements,
                 dbRequest, dbRun, dbRowsFirst>>

\* save_job_details: the upsert and the inserts of the related rows commit
\* together and True is returned, or an exception rolls all of them back
\* and False is returned
DbSaveJobDetails ==
  /\ dbRun \in {1, 2}
  /\ dbTodo # <<>>
  /\ Head(dbTodo)[1] = "job_details"
  /\ LET id == Head(dbTodo)[2] IN
       \/ /\ tbl_job_details' = UpsertDetails(tbl_job_details, DetailsRow(id))
          /\ tbl_job_requirements' =
               SaveJobRequirements(tbl_job_requirements, id,
                                   dbRequest.requirements)
          /\ dbResults' = dbResults \cup {<<dbRun, "job_details", id>>}
       \/ UNCHANGED <<tbl_job_details, tbl_job_requirements, dbResults>>
  /\ dbTodo' = Tail(dbTodo)
  /\ UNCHANGED <<fetchVars, listVars, pipeVars, ssVars, spVars, mgrVars, facVars, rowVars, omVars,
                 detailed_jobs,
                 details_saved, tbl_job_listings, dbRequest, dbRun,
                 dbRowsFirst>>

\* a run made all its saves: the second run starts, or both are over
DbRunEnds ==
  /\ dbRun \in {1, 2}
  /\ dbTodo = <<>>
  /\ dbRun' = dbRun + 1
  /\ IF dbRun = 1
     THEN /\ dbRowsFirst' = [id \in Ids |-> RowsOf(id)]
          /\ dbTodo' = RunSaves
     ELSE UNCHANGED <<dbRowsFirst, dbTodo>>
  /\ UNCHANGED <<fetchVars, listVars, pipeVars, ssVars, spVars, mgrVars, facVars, rowVars, omVars,
                 detailed_jobs,
                 details_saved, tbl_job_listings, tbl_job_details,
                 tbl_job_requirements, dbRequest, dbResults>>

DbNext == DbSaveJobListing \/ DbSaveJobDetails \/ DbRunEnds

SpecDb == DbInit /\ [][DbNext]_vars

\* both runs are over, were runs of the same request, and each of their
\* saves returned True
SameRequestTwice ==
  /\ dbRun = 3
  /\ dbRequest.platform[1] = dbRequest.platform[2]
  /\ \A run \in 1..2 : \A i \in DOMAIN RunSaves :
       <<run, RunSaves[i][1], RunSaves[i][2]>> \in dbResults

\* C28: after the second run of a request every table holds, for each job
\* id, as many rows as after the first run
C28_NoDuplicatesOnRerun ==
  SameRequestTwice => \A id \in Ids : RowsOf(id) = dbRowsFirst[id]

\* C30: a listing saved with success by the run of a platform is stored as
\* a record of that platform, whatever other platform gave a job the same id
C30_SeparatePerPlatform ==
  \A run \in 1..2 : \A id \in Ids :
    <<run, "job_listings", id>> \in dbResults =>
      \E r \in tbl_job_listings :
        r.id = id /\ r.platform = dbRequest.platform[run]

\* ---------------------------------------------------------------------
\* src/main.py: the consumer that leaves `async for job_listing in
\* scraper.get_job_listings(config)` at config.job_count, and the closing of
\* the SsGeScraper stream it leaves suspended at `yield job_dict`.
\* ---------------------------------------------------------------------

\* main.py: `if job_count >= config.job_count: break`
ConsumerBreaks == Len(ssYielded) >= job_count

\* main.py asks for the next job: the generator resumes after the yield
MainNext ==
  /\ ~ConsumerBreaks
  /\ ConsumerResume

\* main.py breaks; the generator is closed: GeneratorExit is raised at
\* `yield job_dict`, inside the try, and the bare `except:` catches it
StreamClose ==
  /\ cpc = "yielded"
  /\ ConsumerBreaks
  /\ cpc' = "close_except"
  /\ UNCHANGED <<fetchVars, listVars, pipeVars, jpVars, ssSite, ss_page, wpc, wrows,
                 stop_scraping, jobs_seen, jobs_queue, ssYielded>>

\* the except clause while closing, entered with GeneratorExit or with
\* queue.Empty: break if both workers are done, otherwise continue with
\* `while total_jobs_found < config.job_count`
CloseExcept ==
  /\ cpc \in {"close_except", "close_empty"}
  /\ cpc' = IF BothDone \/ ~(total_jobs_found < job_count)
            THEN "close_shutdown" ELSE "close_get"
  /\ UNCHANGED <<fetchVars, listVars, pipeVars, jpVars, ssSite, ss_page, wpc, wrows,
                 stop_scraping, jobs_seen, jobs_queue, ssYielded>>

\* the loop goes on while closing: jobs_queue.get returns a job and the
\* generator yields it, which ends the close with RuntimeError (async
\* generator ignored GeneratorExit)
CloseGet ==
  /\ cpc = "close_get"
  /\ jobs_queue # <<>>
  /\ ssYielded' = Append(ssYielded, Head(jobs_queue))
  /\ jobs_queue' = Tail(jobs_queue)
  /\ cpc' = "ignored_exit"
  /\ UNCHANGED <<fetchVars, listVars, pipeVars, jpVars, ssSite, ss_page, wpc, wrows,
                 stop_scraping, jobs_seen>>

\* the loop goes on while closing: jobs_queue.get times out on the empty
\* queue and raises queue.Empty, which the same except clause catches
CloseTimeout ==
  /\ cpc = "close_get"
  /\ jobs_queue = <<>>
  /\ cpc' = "close_empty"
  /\ UNCHANGED <<fetchVars, listVars, pipeVars, jpVars, ssSite, ss_page, wpc, wrows,
                 stop_scraping, jobs_seen, jobs_queue, ssYielded>>

\* after the loop while closing: stop_scraping.set(), then wait for the
\* workers
CloseShutdown ==
  /\ cpc = "close_shutdown"
  /\ stop_scraping' = TRUE
  /\ cpc' = "close_joining"
  /\ UNCHANGED <<fetchVars, listVars, pipeVars, jpVars, ssSite, ss_page, wpc, wrows,
                 jobs_seen, jobs_queue, ssYielded>>

\* both workers have finished, the executor is left and the generator
\* returns: the close ends without an error
CloseEnd ==
  /\ cpc = "close_joining"
  /\ BothDone
  /\ cpc' = "closed"
  /\ UNCHANGED <<fetchVars, listVars, pipeVars, jpVars, ssSite, ss_page, wpc, wrows,
                 stop_scraping, jobs_seen, jobs_queue, ssYielded>>

CloseInit == SsGeInit /\ SpIdle

CloseNext ==
  \/ \E w \in Workers : WorkerLoop(w)
  \/ \E w \in Workers : WorkerGet(w)
  \/ \E w \in Workers : WorkerAdd(w)
  \/ \E w \in Workers : WorkerPageDone(w)
  \/ ConsumerGet
  \/ MainNext
  \/ ConsumerTimeout
  \/ ConsumerCheck
  \/ ConsumerShutdown
  \/ StreamEnd
  \/ StreamClose
  \/ CloseExcept
  \/ CloseGet
  \/ CloseTimeout
  \/ CloseShutdown
  \/ CloseEnd

SpecClose == CloseInit /\ [][CloseNext]_vars

\* the close of the stream has begun
Closing ==
  cpc \in {"close_except", "close_get", "close_empty", "close_shutdown",
           "close_joining", "closed", "ignored_exit"}

PipelineFetches == 2

\* the pipelines one call runs at most
MaxPipelines == 2

\* self.pipelines
RegisteredPipelines == {"jobs", "cv"}

\* the lists of pipeline names a caller passes
PipelineNameLists ==
  UNION {[1..n -> RegisteredPipelines \cup {"missing"}] : n \in 1..MaxPipelines}

\* the positions of the list tasks
TaskSlots == 1..MaxPipelines

\* `if name in self.pipelines`
IsRegistered(name) == name \in RegisteredPipelines

\* the coroutine self.run_pipeline(name) as created: not started
NewTask(name) == [name |-> name, pc |-> "created", fetches |-> 0]

\* the coroutine `for name, task in tasks` awaits next
Awaited == Cardinality({i \in DOMAIN tasks : tasks[i].pc = "returned"}) + 1

MgrInit ==
  /\ FetchInit
  /\ ListIdle
  /\ PipeIdle
  /\ SsIdle
  /\ SpIdle
  /\ DbIdle
  /\ FacIdle
  /\ RowIdle
  /\ OmIdle
  /\ pipeline_names \in PipelineNameLists
  /\ tasks = <<>>
  /\ results = <<>>
  /\ mpc = "start"

\* the first loop: one coroutine per registered name, the other names are
\* skipped with a warning
CreateTasks ==
  /\ mpc = "start"
  /\ tasks' = [i \in DOMAIN SelectSeq(pipeline_names, IsRegistered) |->
                 NewTask(SelectSeq(pipeline_names, IsRegistered)[i])]
  /\ mpc' = "await"
  /\ UNCHANGED <<fetchVars, listVars, pipeVars, ssVars, spVars, dbVars, facVars, rowVars, omVars,
                 detailed_jobs, details_saved, pipeline_names, results>>

\* `result = await task`: the coroutine of task i starts to run
StartTask(i) ==
  /\ mpc = "await"
  /\ i \in DOMAIN tasks
  /\ i = Awaited
  /\ tasks[i].pc = "created"
  /\ tasks' = [tasks EXCEPT ![i].pc = "running"]
  /\ UNCHANGED <<fetchVars, listVars, pipeVars, ssVars, spVars, dbVars, facVars, rowVars, omVars,
                 detailed_jobs, details_saved, pipeline_names, results, mpc>>

\* run_pipeline: pipeline.run_full_pipeline() makes a fetch
TaskFetch(i) ==
  /\ i \in DOMAIN tasks
  /\ tasks[i].pc = "running"
  /\ tasks[i].fetches < PipelineFetches
  /\ tasks' = [tasks EXCEPT ![i].fetches = @ + 1]
  /\ UNCHANGED <<fetchVars, listVars, pipeVars, ssVars, spVars, dbVars, facVars, rowVars, omVars,
                 detailed_jobs, details_saved, pipeline_names, results, mpc>>

\* run_pipeline returns the results of the pipeline, or the failed status
\* when run_full_pipeline raised: results[name] = result
TaskReturns(i) ==
  /\ i \in DOMAIN tasks
  /\ tasks[i].pc = "running"
  /\ tasks' = [tasks EXCEPT ![i].pc = "returned"]
  /\ \E status \in {"completed", "failed"} :
       results' = With(results, tasks[i].name, status)
  /\ UNCHANGED <<fetchVars, listVars, pipeVars, ssVars, spVars, dbVars, facVars, rowVars, omVars,
                 detailed_jobs, details_saved, pipeline_names, mpc>>

\* every coroutine was awaited: `return results`
RunMultipleReturns ==
  /\ mpc = "await"
  /\ Awaited > Len(tasks)
  /\ mpc' = "returned"
  /\ UNCHANGED <<fetchVars, listVars, pipeVars, ssVars, spVars, dbVars, facVars, rowVars, omVars,
                 detailed_jobs, details_saved, pipeline_names, tasks, results>>

MgrNext ==
  \/ CreateTasks
  \/ \E i \in TaskSlots : StartTask(i)
  \/ \E i \in TaskSlots : TaskFetch(i)
  \/ \E i \in TaskSlots : TaskReturns(i)
  \/ RunMultipleReturns

SpecMgr == MgrInit /\ [][MgrNext]_vars

\* C31: while a pipeline runs, a pipeline whose coroutine was created but
\* has not started can start: its first step is enabled
C31_SecondCanStart ==
  \A i, j \in DOMAIN tasks :
    (tasks[i].pc = "running" /\ tasks[j].pc = "created") =>
      ENABLED StartTask(j)

\* ---------------------------------------------------------------------
\* ScraperFactory: the registry _scrapers, filled when the module is imported
\* ---------------------------------------------------------------------

\* the members of the enum ScraperType
ScraperType ==
  {"JOBS_GE", "CV_GE", "HR_GE", "INDEED", "LINKEDIN", "GLASSDOOR",
   "STACK_OVERFLOW"}

\* the member names main.py and test_ss_ge.py write after `ScraperType.`
RequestedTypes == {"JOBS_GE", "CV_GE", "HR_GE", "SS_GE"}

\* _register_default_scrapers: the register_scraper calls it makes
DefaultScrapers ==
  [t \in {"JOBS_GE", "CV_GE", "HR_GE"} |->
     CASE t = "JOBS_GE" -> "JobsGeScraper"
       [] t = "CV_GE" -> "CvGeScraper"
       [] t = "HR_GE" -> "HrGeScraper"]

\* the types the module names for later registration
PlannedTypes == {"INDEED", "LINKEDIN"}

\* the scraper classes of the repository
ScraperClasses == {"JobsGeScraper", "CvGeScraper", "HrGeScraper", "SsGeScraper"}

\* `ScraperType.<name>` followed by create_scraper: AttributeError when the
\* enum has no such member, ValueError when the member is not a key of
\* _scrapers, otherwise an instance of the registered class
CreateScraperOutcome(registry, name) ==
  IF name \notin ScraperType THEN "AttributeError"
  ELSE IF name \notin DOMAIN registry THEN "ValueError"
  ELSE registry[name]

\* the class body of ScraperFactory has run: `_scrapers = {}`
FacInit ==
  /\ FetchInit
  /\ ListIdle
  /\ PipeIdle
  /\ SsIdle
  /\ SpIdle
  /\ DbIdle
  /\ MgrIdle
  /\ RowIdle
  /\ OmIdle
  /\ scrapers = <<>>
  /\ created = <<>>
  /\ fpc = "class"

\* the last statement of the module: _register_default_scrapers()
RegisterDefaultScrapers ==
  /\ fpc = "class"
  /\ scrapers' = DefaultScrapers
  /\ fpc' = "imported"
  /\ UNCHANGED <<fetchVars, listVars, pipeVars, ssVars, spVars, dbVars, mgrVars,
                 rowVars, omVars, detailed_jobs, details_saved, created>>

\* register_scraper(scraper_type, scraper_class), called by a user of the
\* module
RegisterScraper(t, class) ==
  /\ fpc = "imported"
  /\ scrapers' = With(scrapers, t, class)
  /\ UNCHANGED <<fetchVars, listVars, pipeVars, ssVars, spVars, dbVars, mgrVars,
                 rowVars, omVars, detailed_jobs, details_saved, created, fpc>>

\* create_scraper(ScraperType.<name>)
CreateScraper(name) ==
  /\ fpc = "imported"
  /\ created' = <<name, CreateScraperOutcome(scrapers, name)>>
  /\ UNCHANGED <<fetchVars, listVars, pipeVars, ssVars, spVars, dbVars, mgrVars,
                 rowVars, omVars, detailed_jobs, details_saved, scrapers, fpc>>

FacNext ==
  \/ RegisterDefaultScrapers
  \/ \E t \in PlannedTypes :
       \E class \in ScraperClasses : RegisterScraper(t, class)
  \/ \E name \in ScraperType \cup RequestedTypes : CreateScraper(name)

SpecFactory == FacInit /\ [][FacNext]_vars

\* C32: once the module is imported, every scraper type main.py and the
\* test scripts request is registered, and create_scraper has returned a
\* scraper for each such type it was asked for
C32_RequestedRegistered ==
  fpc = "imported" =>
    /\ RequestedTypes \subseteq DOMAIN scrapers
    /\ (created # <<>> /\ created[1] \in RequestedTypes) =>
         created[2] \in ScraperClasses

\* ------------------------------------------- fetch layer: backoff and slots

\* the fetches sleeping between two attempts
Sleeping == {t \in Tasks : pc[t] = "backoff"}

\* C33: a fetch sleeping in its retry backoff holds no slot: the slots taken
\* are those of the fetches inside the guarded section, none of them
\* sleeping in backoff, and every other slot is free
C33_BackoffHoldsNoSlot ==
  /\ Sleeping \cap Holders = {}
  /\ semaphore = max_concurrent - Cardinality(Holders \ Sleeping)
  /\ Sleeping = Tasks => semaphore = max_concurrent

\* one fetch sleeps in backoff while the others hold every slot
C33_Witness ==
  /\ Sleeping # {}
  /\ semaphore = 0
  /\ Cardinality(Holders) = max_concurrent

\* ------------------------------- SsGeScraper.get_job_listings: more properties

RowCounts(ids) == [p \in DOMAIN ids |-> Len(ids[p])]

\* BaseScraper.get_job_listings or CvGeScraper.get_job_listings is about to
\* list a site that may serve a job on more than one page; the filter of
\* CvGeScraper passes every row
RepeatInit ==
  /\ ListingBase
  /\ max_retries = 3
  /\ platform \in {"generic", "cv_ge"}
  /\ job_count \in 1..MaxJobCount
  /\ siteIds \in [1..ShortPages -> PageKeySeqs]
  /\ site = RowCounts(siteIds)
  /\ sitePass = site
  /\ lpc = "loop"
  /\ SsIdle

\* a listing stream of one of the scrapers starts on a site that may list a
\* job twice
RowsInit == (RepeatInit \/ SsGeInit) /\ SpIdle

SpecRows == RowsInit /\ [][ListingNext]_vars

\* no element occurs twice in the sequence
NoRepeat(seq) == \A i, j \in DOMAIN seq : seq[i] = seq[j] => i = j

\* C35: a listing stream never yields two summaries with the same job id
C35_NoDuplicateIds == NoRepeat(yieldedIds) /\ NoRepeat(ssYielded)

\* the part of it on the SS.ge stream, which holds
SsGeNoDuplicateIds == NoRepeat(ssYielded)

\* ------------------------------------------- listing streams: termination

\* CvGeScraper on a site with rows on more than MAX_PAGES pages, every row
\* rejected by _filter_jobs
LongCvGeInit ==
  /\ ListingBase
  /\ max_retries = 3
  /\ platform = "cv_ge"
  /\ job_count = MaxJobCount
  /\ site = [p \in 1..(MAX_PAGES + 1) |-> 1]
  /\ sitePass = [p \in 1..(MAX_PAGES + 1) |-> 0]
  /\ siteIds = DistinctRows(site)
  /\ lpc = "loop"
  /\ SsIdle

\* SsGeScraper on a site with a job card on every even page up to past
\* max_pages, the same job on each, so that the target is never reached
LongSsGeInit ==
  /\ ListingBase
  /\ max_retries = 3
  /\ platform = "ss_ge"
  /\ job_count = MaxJobCount
  /\ site = <<>>
  /\ sitePass = <<>>
  /\ siteIds = <<>>
  /\ lpc = "idle"
  /\ ssSite = [p \in 1..(max_pages + 2) |-> IF p % 2 = 0 THEN <<1>> ELSE <<>>]
  /\ ss_page = [w \in Workers |-> 1 + w]
  /\ wpc = [w \in Workers |-> "loop"]
  /\ wrows = [w \in Workers |-> <<>>]
  /\ stop_scraping = FALSE
  /\ jobs_seen = {}
  /\ jobs_queue = <<>>
  /\ cpc = "get"
  /\ ssYielded = <<>>
  /\ detailed_jobs = <<>>
  /\ details_saved = 0

\* a listing stream starts on a short site, or on one of the long ones
StreamsInit ==
  /\ \/ /\ ListingInit \/ CvGeInit \/ SsGeInit
        /\ max_retries = 3
        /\ job_count <= NumIds
        /\ ShortSite
        /\ FilterAllOrNone
        /\ OneCardPages
     \/ LongCvGeInit
     \/ LongSsGeInit
  /\ SpIdle

\* a step of the generator, asked for the next listing whenever it yields
StreamStep ==
  \/ GetJobListingsLoop
  \/ BaseFetchStep(1)
  \/ GetJobListingsParsed
  \/ GetJobListingsParseError
  \/ GetJobListingsFetchError
  \/ GetJobListingsYield
  \/ GetJobListingsPageDone
  \/ ConsumerGet
  \/ ConsumerResume
  \/ ConsumerTimeout
  \/ ConsumerCheck
  \/ ConsumerShutdown
  \/ StreamEnd

\* the event loop runs the generator and each worker thread is scheduled
StreamFairness ==
  /\ WF_vars(StreamStep)
  /\ \A w \in Workers : WF_vars(WorkerStep(w))

SpecStreams == StreamsInit /\ [][ListingNext]_vars /\ StreamFairness

\* the list pages a stream may request
PageRequestsBounded ==
  /\ platform = "generic" => Cardinality(pagesRequested) <= job_count
  /\ platform = "cv_ge" => pagesRequested \subseteq 1..MAX_PAGES
  /\ platform = "ss_ge" => pagesRequested \subseteq 1..max_pages

\* C36: every listing stream ends, BaseScraper's after at most job_count
\* page requests, CvGeScraper's after at most MAX_PAGES, and the workers of
\* SsGeScraper request no page past max_pages
C36_StreamsTerminate == []PageRequestsBounded /\ <>StreamEnded

\* CvGeScraper's stream has ended after MAX_PAGES page requests that yielded
\* nothing
C36_Witness ==
  /\ platform = "cv_ge"
  /\ lpc = "done"
  /\ pagesRequested = 1..MAX_PAGES
  /\ total_jobs_found = 0

\* the get_job_details calls inside the section guarded by detail_semaphore
DetailHolders == {t \in Tasks : dpc[t] = "fetching"}

\* C37: in run_full_pipeline no detail request of a batch starts before every
\* detail request of the batches before it has completed (their results are
\* already in detailed_jobs and every request under way belongs to the batch
\* that starts at batchStart), and at every moment at most
\* max_concurrent_details requests are inside the section of get_job_details
\* guarded by detail_semaphore
C37_BatchesInOrder ==
  /\ Cardinality(DetailHolders) <= max_concurrent_details
  /\ detail_semaphore = max_concurrent_details - Cardinality(DetailHolders)
  /\ ppc = "phase2" =>
       /\ Len(detailed_jobs) = batchStart - 1
       /\ \A t \in Tasks : dpc[t] # "idle" => t <= BatchLen(batchStart)
  /\ ppc \in {"phase1", "phase3", "done"} => DetailHolders = {}

\* the first batch has completed and a request of the second batch is inside
\* the guarded section, with every slot taken
C37_Witness ==
  /\ ppc = "phase2"
  /\ batchStart > 1
  /\ Len(detailed_jobs) = batchStart - 1
  /\ detail_semaphore = 0
  /\ DetailHolders # {}

\* ---------------------------------------------------------------------
\* JobPipeline.run_full_pipeline writing to DatabaseOutputManager twice: the
\* detail fetches of the first run succeed, some of the second run fail.
\* ---------------------------------------------------------------------

\* two runs of one platform; the ids in failed[2] are the jobs whose
\* scraper.get_job_details raises in the second run
RefetchInit ==
  /\ FetchInit
  /\ ListIdle
  /\ PipeIdle
  /\ SsIdle
  /\ SpIdle
  /\ MgrIdle
  /\ FacIdle
  /\ RowIdle
  /\ OmIdle
  /\ tbl_job_listings = {}
  /\ tbl_job_details = {}
  /\ tbl_job_requirements = <<>>
  /\ dbRequest \in [platform : [1..2 -> {"jobs_ge"}],
                    requirements : {<<>>},
                    failed : [1..2 -> SUBSET Ids]]
  /\ dbRequest.failed[1] = {}
  /\ dbRun = 1
  /\ dbTodo = RunSaves
  /\ dbResults = {}
  /\ dbRowsFirst = <<>>

SpecRefetch == RefetchInit /\ [][DbNext]_vars

\* the description stored for a job id
StoredDescription(id) ==
  {r.description : r \in {x \in tbl_job_details : x.id = id}}

\* C38: a detail fetch that fails never modifies an already persisted detail
\* record of that id: when the first run has stored the details of X and the
\* fetch for X fails in the second run, the stored description of X is, during
\* and after the second run, still the one the first run wrote
C38_FailedFetchKeepsRecord ==
  \A id \in Ids :
    (dbRun \in {2, 3} /\ id \in dbRequest.failed[2]
       /\ <<1, "job_details", id>> \in dbResults) =>
      StoredDescription(id) = {<<dbRequest.platform[1], id>>}

\* C39: in scrape_platform, after each processed listing and in the returned
\* result, also when the listing stream raised part-way, successful_saves +
\* failed_saves = total_jobs_found; while save_job_listing is awaited the
\* listing under way is counted in total_jobs_found only
C39_SavesAddUp ==
  /\ spc \in {"streaming", "returned", "returned_error"} =>
       successful_saves + failed_saves = jobs_processed
  /\ spc = "saving" =>
       successful_saves + failed_saves = jobs_processed - 1

\* the stream raised after a listing was saved and the save of another
\* returned False
C39_Witness ==
  /\ spc = "returned_error"
  /\ successful_saves > 0
  /\ failed_saves > 0

\* ---------------------------------------------------------------------
\* OutputManager (src/utils/output_manager.py, used by scraper/pipeline.py,
\* and src/src/utils/output_manager.py): save_job_temp and finalize.
\* ---------------------------------------------------------------------

\* save_job_temp calls before finalize
MaxSaves == 3

OutputManagers == {"utils", "src.utils"}

\* temp_dir / f"job-{job_id}.json"
TempPath(id) == <<"job", id, "json">>

\* the text json.dumps gives for the n-th record passed to save_job_temp
JobText(id, n) == [id |-> id, rev |-> n]

\* the file as open(temp_path, 'w') leaves it when the write then fails
TruncatedText(id) == [id |-> id, rev |-> 0]

\* json.loads(content) raises
Unparseable(content) == content.rev = 0

\* the save_job_temp calls made so far
SavesMade == Len(passed)

\* the ids a save_job_temp call has saved a record for
SavedIds == {passed[i].id : i \in {j \in DOMAIN passed : passed[j].saved}}

\* the latest save_job_temp call that saved a record for the id
LatestSaved(id) ==
  CHOOSE i \in DOMAIN passed :
    /\ passed[i].id = id /\ passed[i].saved
    /\ \A j \in DOMAIN passed :
         (passed[j].id = id /\ passed[j].saved) => j <= i

\* an OutputManager as constructed on a new output_dir
OmInit ==
  /\ FetchInit
  /\ ListIdle
  /\ PipeIdle
  /\ SsIdle
  /\ SpIdle
  /\ DbIdle
  /\ MgrIdle
  /\ FacIdle
  /\ RowIdle
  /\ om_module \in OutputManagers
  /\ temp_dir = <<>>
  /\ final_jobs_file = <<>>
  /\ passed = <<>>
  /\ opc = "open"

\* save_job_temp(job_id, job_data): the file is opened for writing and the
\* text is written; or open raises and the directory is as before; or the
\* write raises after open has truncated the file. Pipeline.run catches the
\* exception, counts an error and goes on
SaveJobTemp(id) ==
  /\ opc = "open"
  /\ SavesMade < MaxSaves
  /\ \/ /\ temp_dir' = With(temp_dir, TempPath(id), JobText(id, SavesMade + 1))
        /\ passed' = Append(passed, [id |-> id, saved |-> TRUE])
     \/ /\ temp_dir' = temp_dir
        /\ passed' = Append(passed, [id |-> id, saved |-> FALSE])
     \/ /\ temp_dir' = With(temp_dir, TempPath(id), TruncatedText(id))
        /\ passed' = Append(passed, [id |-> id, saved |-> FALSE])
  /\ UNCHANGED <<fetchVars, listVars, pipeVars, ssVars, detailed_jobs,
                 details_saved, spVars, dbVars, mgrVars, facVars, rowVars,
                 om_module, final_jobs_file, opc>>

\* the contents of the temporary files, in the order of the listing
TempContents ==
  LET listed == SeqOf({id \in Ids : TempPath(id) \in DOMAIN temp_dir})
  IN [i \in 1..Len(listed) |-> temp_dir[TempPath(listed[i])]]

\* utils.output_manager finalize(): every file is read and parsed by
\* asyncio.gather; an exception of a read leaves finalize before jobs.json is
\* written; otherwise jobs.json is written, the files and temp_dir removed
FinalizeUtils ==
  /\ opc = "open"
  /\ om_module = "utils"
  /\ IF \E f \in DOMAIN temp_dir : Unparseable(temp_dir[f])
     THEN /\ opc' = "raised"
          /\ UNCHANGED <<temp_dir, final_jobs_file>>
     ELSE /\ final_jobs_file' = TempContents
          /\ temp_dir' = <<>>
          /\ opc' = "finalized"
  /\ UNCHANGED <<fetchVars, listVars, pipeVars, ssVars, detailed_jobs,
                 details_saved, spVars, dbVars, mgrVars, facVars, rowVars,
                 om_module, passed>>

\* src.utils.output_manager finalize(cleanup_temp=True): a file whose read or
\* parse raises is noted in errors and left out; jobs.json is written with
\* the others; every file of the listing is unlinked
FinalizeSrcUtils ==
  /\ opc = "open"
  /\ om_module = "src.utils"
  /\ final_jobs_file' = SelectSeq(TempContents, LAMBDA c : ~Unparseable(c))
  /\ temp_dir' = <<>>
  /\ opc' = "finalized"
  /\ UNCHANGED <<fetchVars, listVars, pipeVars, ssVars, detailed_jobs,
                 details_saved, spVars, dbVars, mgrVars, facVars, rowVars,
                 om_module, passed>>

OmNext ==
  \/ \E id \in Ids : SaveJobTemp(id)
  \/ FinalizeUtils
  \/ FinalizeSrcUtils

SpecOutput == OmInit /\ [][OmNext]_vars

\* jobs.json holds exactly the latest record saved of each id
LatestOfEach ==
  /\ Range(final_jobs_file) = {JobText(id, LatestSaved(id)) : id \in SavedIds}
  /\ Len(final_jobs_file) = Cardinality(SavedIds)

\* C40: after finalize, jobs.json contains exactly one record for each
\* distinct job id that save_job_temp saved a record for before it, the
\* latest record saved for that id, and no temporary job file remains
C40_FinalizeMergesAll ==
  opc \in {"finalized", "raised"} => (LatestOfEach /\ DOMAIN temp_dir = {})

\* no temporary file was truncated by a write that failed
EveryWriteDone == \A f \in DOMAIN temp_dir : ~Unparseable(temp_dir[f])

\* finalize after save_job_temp calls that all wrote their file gives
\* jobs.json as C40 says
FinalizeAfterCompleteWrites ==
  [][(opc = "open" /\ EveryWriteDone /\ opc' # "open") =>
       (LatestOfEach /\ DOMAIN temp_dir = {})']_vars

====
